---- MODULE Spec2Model ----
(***************************************************************************)
(* Session-activity inference engine of claude-code-ui (packages/daemon):  *)
(* the record classifier and the XState status machine                     *)
(* (status-machine.ts), the status wrapper (status.ts) and the             *)
(* SessionWatcher orchestrator (watcher.ts).                               *)
(***************************************************************************)
EXTENDS Integers, Sequences, FiniteSets, Bags, TLC

(***************************************************************************)
(* Bounds of the model.                                                    *)
(***************************************************************************)
\* entries replayed in one evaluation of the stepwise evaluation
MaxEntries == 3

\* status events sent straight to one actor
MaxEvents == 5
\* evaluations of the same entries at the same instant
Replays == 2

\* Wall-clock origin (ms). Date.now() is far larger than every timeout.
Epoch == 1000 * 1000

\* context.lastActivityAt = "" (status-machine.ts:52)
NoTime == -1

IDLE_TIMEOUT_MS == 5 * 60 * 1000
APPROVAL_TIMEOUT_MS == 5 * 1000
STALE_TIMEOUT_MS == 60 * 1000

Range(s) == {s[i] : i \in 1..Len(s)}

(***************************************************************************)
(* Log entries.  type: user | assistant | system | summary; kind: the      *)
(* shape of message.content (string | array | other); blocks: the content  *)
(* blocks [btype, name, id] (id is tool_use_id for a tool_result block).   *)
(***************************************************************************)
Block(btype, name, id) == [btype |-> btype, name |-> name, id |-> id]
TextBlock == Block("text", "", "")
ImageBlock == Block("image", "", "")
ToolUse(name, id) == Block("tool_use", name, id)
ToolResult(id) == Block("tool_result", "", id)

Shape(type, kind, blocks, subtype) ==
    [type |-> type, kind |-> kind, blocks |-> blocks, subtype |-> subtype]

UserString == Shape("user", "string", <<>>, "")
UserText == Shape("user", "array", <<TextBlock>>, "")
UserImage == Shape("user", "array", <<ImageBlock>>, "")
UserResult(ids) == Shape("user", "array", [i \in 1..Len(ids) |-> ToolResult(ids[i])], "")
UserTextResult(id) == Shape("user", "array", <<TextBlock, ToolResult(id)>>, "")
AssistantText == Shape("assistant", "array", <<TextBlock>>, "")
AssistantTool(ids) ==
    Shape("assistant", "array", [i \in 1..Len(ids) |-> ToolUse("Edit", ids[i])], "")
AssistantTask(id) == Shape("assistant", "array", <<ToolUse("Task", id)>>, "")
AssistantTaskTool(task, id) ==
    Shape("assistant", "array", <<ToolUse("Task", task), TextBlock, ToolUse("Edit", id)>>, "")
SystemEntry(subtype) == Shape("system", "other", <<>>, subtype)
SummaryEntry == Shape("summary", "other", <<>>, "")

\* one record shape for every path through the classifier
AllShapes ==
    { UserString, UserText, UserImage, UserResult(<<"t1">>), UserResult(<<"t2">>),
      UserResult(<<"t1", "t2">>), UserTextResult("t1"), AssistantText, AssistantTool(<<"t1">>),
      AssistantTool(<<"t1", "t2">>), AssistantTask("t1"),
      AssistantTaskTool("t1", "t2"), SystemEntry("turn_duration"),
      SystemEntry("stop_hook_summary"), SystemEntry("init"), SummaryEntry }

\* the record shapes the stepwise evaluation draws from
EvalShapes ==
    { UserString, UserResult(<<"t1">>), AssistantText, AssistantTool(<<"t1">>),
      AssistantTool(<<"t1", "t2">>), AssistantTask("t1"),
      SystemEntry("turn_duration"), SummaryEntry }

\* a log record: its uuid (unique within the log), its shape and its timestamp
Entry(uuid, shape, ts) ==
    [uuid |-> uuid, type |-> shape.type, kind |-> shape.kind, blocks |-> shape.blocks,
     subtype |-> shape.subtype, timestamp |-> ts]

(***************************************************************************)
(* Record classifier.                                                      *)
(***************************************************************************)
NoEvent == [type |-> "NONE", timestamp |-> NoTime, toolUseIds |-> <<>>]
Event(type, ts, ids) == [type |-> type, timestamp |-> ts, toolUseIds |-> ids]

BlockIds(blocks) == [i \in 1..Len(blocks) |-> blocks[i].id]

IsToolResultBlock(b) == b.btype = "tool_result"
IsTextBlock(b) == b.btype = "text"
IsApprovalToolUse(b) == b.btype = "tool_use" /\ b.name # "Task"

\* content.filter((b) => b.type === "tool_result")
ToolResultBlocks(blocks) == SelectSeq(blocks, IsToolResultBlock)
\* content.filter((b) => b.type === "tool_use" && b.name !== "Task")
toolUseBlocks(blocks) == SelectSeq(blocks, IsApprovalToolUse)

\* a classifier that looks for a text block before it looks for tool results
TextBeforeToolResult(entry) ==
    IF entry.type = "user" /\ entry.kind = "string"
      THEN Event("USER_PROMPT", entry.timestamp, <<>>)
    ELSE IF entry.type = "user" /\ entry.kind = "array"
              /\ \E i \in 1..Len(entry.blocks) : IsTextBlock(entry.blocks[i])
      THEN Event("USER_PROMPT", entry.timestamp, <<>>)
    ELSE IF entry.type = "user" /\ entry.kind = "array"
              /\ Len(ToolResultBlocks(entry.blocks)) > 0
      THEN Event("TOOL_RESULT", entry.timestamp,
                 BlockIds(ToolResultBlocks(entry.blocks)))
    ELSE IF entry.type = "assistant"
      THEN IF Len(toolUseBlocks(entry.blocks)) > 0
             THEN Event("ASSISTANT_TOOL_USE", entry.timestamp,
                        BlockIds(toolUseBlocks(entry.blocks)))
             ELSE Event("ASSISTANT_STREAMING", entry.timestamp, <<>>)
    ELSE IF entry.type = "system"
              /\ entry.subtype \in {"turn_duration", "stop_hook_summary"}
      THEN Event("TURN_END", entry.timestamp, <<>>)
    ELSE NoEvent

logEntryToEvent(entry) ==
    IF entry.type = "user" /\ entry.kind = "string"
      THEN Event("USER_PROMPT", entry.timestamp, <<>>)
    ELSE IF entry.type = "user" /\ entry.kind = "array"
              /\ Len(ToolResultBlocks(entry.blocks)) > 0
      THEN Event("TOOL_RESULT", entry.timestamp,
                 BlockIds(ToolResultBlocks(entry.blocks)))
    ELSE IF entry.type = "user" /\ entry.kind = "array"
              /\ \E i \in 1..Len(entry.blocks) : IsTextBlock(entry.blocks[i])
      THEN Event("USER_PROMPT", entry.timestamp, <<>>)
    ELSE IF entry.type = "assistant"
      THEN IF Len(toolUseBlocks(entry.blocks)) > 0
             THEN Event("ASSISTANT_TOOL_USE", entry.timestamp,
                        BlockIds(toolUseBlocks(entry.blocks)))
             ELSE Event("ASSISTANT_STREAMING", entry.timestamp, <<>>)
    ELSE IF entry.type = "system"
              /\ entry.subtype \in {"turn_duration", "stop_hook_summary"}
      THEN Event("TURN_END", entry.timestamp, <<>>)
    ELSE NoEvent

(***************************************************************************)
(* Status machine: a snapshot is [value, context].                         *)
(***************************************************************************)
Context(at, count, pending, ids) ==
    [lastActivityAt |-> at, messageCount |-> count,
     hasPendingToolUse |-> pending, pendingToolIds |-> ids]

InitialContext == Context(NoTime, 0, FALSE, <<>>)

Snapshot(value, context) == [value |-> value, context |-> context]

\* context.pendingToolIds.filter((id) => !event.toolUseIds.includes(id))
Remaining(context, event) ==
    SelectSeq(context.pendingToolIds, LAMBDA id : id \notin Range(event.toolUseIds))

OnUserPromptFresh(context, event) ==
    Context(event.timestamp, context.messageCount + 1,
            context.hasPendingToolUse, context.pendingToolIds)

OnUserPromptWorking(context, event) ==
    Context(event.timestamp, context.messageCount + 1, FALSE, <<>>)

OnAssistantStreaming(context, event) ==
    Context(event.timestamp, context.messageCount,
            context.hasPendingToolUse, context.pendingToolIds)

OnAssistantToolUse(context, event) ==
    Context(event.timestamp, context.messageCount + 1, TRUE, event.toolUseIds)

\* a result taken as the end of every outstanding call
ClearOnToolResult(context, event) ==
    Context(event.timestamp, context.messageCount + 1, FALSE, <<>>)

OnToolResult(context, event) ==
    Context(event.timestamp, context.messageCount + 1,
            Len(Remaining(context, event)) > 0, Remaining(context, event))

\* a turn end that leaves the outstanding calls as they are
TurnEndKeepsPending(context, event) ==
    Context(event.timestamp, context.messageCount,
            context.hasPendingToolUse, context.pendingToolIds)

OnTurnEnd(context, event) ==
    Context(event.timestamp, context.messageCount, FALSE, <<>>)

OnStaleTimeout(context, event) ==
    Context(context.lastActivityAt, context.messageCount, FALSE, context.pendingToolIds)

IdleState(snap, event) ==
    IF event.type = "USER_PROMPT"
      THEN Snapshot("working", OnUserPromptFresh(snap.context, event))
      ELSE snap

\* working as the documented diagram draws it: a tool call asks for approval
\* at once
ToolUseAwaitsAtOnce(snap, event) ==
    CASE event.type = "USER_PROMPT" ->
           Snapshot("working", OnUserPromptWorking(snap.context, event))
      [] event.type = "ASSISTANT_STREAMING" ->
           Snapshot("working", OnAssistantStreaming(snap.context, event))
      [] event.type = "ASSISTANT_TOOL_USE" ->
           Snapshot("waiting_for_approval", OnAssistantToolUse(snap.context, event))
      [] event.type = "TOOL_RESULT" ->
           Snapshot("working", OnToolResult(snap.context, event))
      [] event.type = "TURN_END" ->
           Snapshot("waiting_for_input", OnTurnEnd(snap.context, event))
      [] event.type = "APPROVAL_TIMEOUT" ->
           Snapshot("waiting_for_approval", snap.context)
      [] event.type = "STALE_TIMEOUT" ->
           Snapshot("waiting_for_input", OnStaleTimeout(snap.context, event))
      [] event.type = "IDLE_TIMEOUT" ->
           Snapshot("idle", snap.context)
      [] OTHER -> snap

\* working with a turn's end taken for the session going idle
TurnEndGoesIdle(snap, event) ==
    CASE event.type = "USER_PROMPT" ->
           Snapshot("working", OnUserPromptWorking(snap.context, event))
      [] event.type = "ASSISTANT_STREAMING" ->
           Snapshot("working", OnAssistantStreaming(snap.context, event))
      [] event.type = "ASSISTANT_TOOL_USE" ->
           Snapshot("working", OnAssistantToolUse(snap.context, event))
      [] event.type = "TOOL_RESULT" ->
           Snapshot("working", OnToolResult(snap.context, event))
      [] event.type = "TURN_END" ->
           Snapshot("idle", OnTurnEnd(snap.context, event))
      [] event.type = "APPROVAL_TIMEOUT" ->
           Snapshot("waiting_for_approval", snap.context)
      [] event.type = "STALE_TIMEOUT" ->
           Snapshot("waiting_for_input", OnStaleTimeout(snap.context, event))
      [] event.type = "IDLE_TIMEOUT" ->
           Snapshot("idle", snap.context)
      [] OTHER -> snap

WorkingState(snap, event) ==
    CASE event.type = "USER_PROMPT" ->
           Snapshot("working", OnUserPromptWorking(snap.context, event))
      [] event.type = "ASSISTANT_STREAMING" ->
           Snapshot("working", OnAssistantStreaming(snap.context, event))
      [] event.type = "ASSISTANT_TOOL_USE" ->
           Snapshot("working", OnAssistantToolUse(snap.context, event))
      [] event.type = "TOOL_RESULT" ->
           Snapshot("working", OnToolResult(snap.context, event))
      [] event.type = "TURN_END" ->
           Snapshot("waiting_for_input", OnTurnEnd(snap.context, event))
      [] event.type = "APPROVAL_TIMEOUT" ->
           Snapshot("waiting_for_approval", snap.context)
      [] event.type = "STALE_TIMEOUT" ->
           Snapshot("waiting_for_input", OnStaleTimeout(snap.context, event))
      [] event.type = "IDLE_TIMEOUT" ->
           Snapshot("idle", snap.context)
      [] OTHER -> snap

\* waiting_for_approval taking a user prompt as well
ApprovalAcceptsPrompt(snap, event) ==
    CASE event.type = "TOOL_RESULT" ->
           Snapshot("working", OnToolResult(snap.context, event))
      [] event.type = "USER_PROMPT" ->
           Snapshot("working", OnUserPromptFresh(snap.context, event))
      [] event.type = "IDLE_TIMEOUT" ->
           Snapshot("idle", snap.context)
      [] OTHER -> snap

WaitingForApprovalState(snap, event) ==
    CASE event.type = "TOOL_RESULT" ->
           Snapshot("working", OnToolResult(snap.context, event))
      [] event.type = "IDLE_TIMEOUT" ->
           Snapshot("idle", snap.context)
      [] OTHER -> snap

WaitingForInputState(snap, event) ==
    CASE event.type = "USER_PROMPT" ->
           Snapshot("working", OnUserPromptFresh(snap.context, event))
      [] event.type = "IDLE_TIMEOUT" ->
           Snapshot("idle", snap.context)
      [] OTHER -> snap

\* actor.send(event)
Send(snap, event) ==
    CASE snap.value = "idle" -> IdleState(snap, event)
      [] snap.value = "working" -> WorkingState(snap, event)
      [] snap.value = "waiting_for_approval" -> WaitingForApprovalState(snap, event)
      [] snap.value = "waiting_for_input" -> WaitingForInputState(snap, event)

\* a context object shared by the actors, each starting where the last ended
SharedContext(previous) == previous

\* the context a new actor starts with; the machine's context is a factory
\* function, so the context of an earlier actor (previous) is not reused
ContextFactory(previous) == InitialContext

\* createActor(statusMachine).start(), given the last actor's snapshot
CreateActor(last) == Snapshot("waiting_for_input", ContextFactory(last.context))

\* for (const entry of entries) { event = logEntryToEvent(entry); if (event) send }
SendEntry(snap, entry) ==
    IF logEntryToEvent(entry) = NoEvent THEN snap ELSE Send(snap, logEntryToEvent(entry))

RECURSIVE ReplayEntries(_, _)
ReplayEntries(snap, entries) ==
    IF entries = <<>> THEN snap
    ELSE ReplayEntries(SendEntry(snap, Head(entries)), Tail(entries))

\* an elapsed time that is zero while no activity has been recorded
TimeSinceKnownActivity(context, now) ==
    IF context.lastActivityAt # NoTime THEN now - context.lastActivityAt ELSE 0

TimeSinceActivity(context, now) ==
    now - (IF context.lastActivityAt # NoTime THEN context.lastActivityAt ELSE 0)

TimeoutEvent(type) == Event(type, NoTime, <<>>)

\* the timeout check with the approval check ahead of the idle check
ApprovalFirst(snap, now) ==
    IF snap.value = "working" /\ snap.context.hasPendingToolUse
         /\ TimeSinceActivity(snap.context, now) > APPROVAL_TIMEOUT_MS
      THEN Send(snap, TimeoutEvent("APPROVAL_TIMEOUT"))
    ELSE IF TimeSinceActivity(snap.context, now) > IDLE_TIMEOUT_MS
      THEN Send(snap, TimeoutEvent("IDLE_TIMEOUT"))
    ELSE IF snap.value = "working" /\ ~snap.context.hasPendingToolUse
              /\ TimeSinceActivity(snap.context, now) > STALE_TIMEOUT_MS
      THEN Send(snap, TimeoutEvent("STALE_TIMEOUT"))
    ELSE snap

\* the timeout check with the approval timeout reached at 5 seconds sharp
TimeoutsInclusive(snap, now) ==
    IF TimeSinceActivity(snap.context, now) > IDLE_TIMEOUT_MS
      THEN Send(snap, TimeoutEvent("IDLE_TIMEOUT"))
    ELSE IF snap.value = "working" /\ snap.context.hasPendingToolUse
              /\ TimeSinceActivity(snap.context, now) >= APPROVAL_TIMEOUT_MS
      THEN Send(snap, TimeoutEvent("APPROVAL_TIMEOUT"))
    ELSE IF snap.value = "working" /\ ~snap.context.hasPendingToolUse
              /\ TimeSinceActivity(snap.context, now) > STALE_TIMEOUT_MS
      THEN Send(snap, TimeoutEvent("STALE_TIMEOUT"))
    ELSE snap

\* the timeout transitions applied after the replay (at most one event)
ApplyTimeouts(snap, now) ==
    IF TimeSinceActivity(snap.context, now) > IDLE_TIMEOUT_MS
      THEN Send(snap, TimeoutEvent("IDLE_TIMEOUT"))
    ELSE IF snap.value = "working" /\ snap.context.hasPendingToolUse
              /\ TimeSinceActivity(snap.context, now) > APPROVAL_TIMEOUT_MS
      THEN Send(snap, TimeoutEvent("APPROVAL_TIMEOUT"))
    ELSE IF snap.value = "working" /\ ~snap.context.hasPendingToolUse
              /\ TimeSinceActivity(snap.context, now) > STALE_TIMEOUT_MS
      THEN Send(snap, TimeoutEvent("STALE_TIMEOUT"))
    ELSE snap

\* deriveStatusFromMachine(entries) evaluated at Date.now() = now
deriveStatusFromMachine(last, entries, now) ==
    ApplyTimeouts(ReplayEntries(CreateActor(last), entries), now)

ExternalStatus(value) ==
    CASE value = "working" -> "working"
      [] value \in {"waiting_for_approval", "waiting_for_input"} -> "waiting"
      [] value = "idle" -> "idle"

machineStatusToResult(machineStatus, context) ==
    [status |-> ExternalStatus(machineStatus), lastRole |-> "assistant",
     hasPendingToolUse |-> context.hasPendingToolUse,
     lastActivityAt |-> context.lastActivityAt,
     messageCount |-> context.messageCount]

\* deriveStatus(entries) of status.ts
deriveStatus(entries, now) ==
    LET r == deriveStatusFromMachine(Snapshot("waiting_for_input", InitialContext),
                                     entries, now)
    IN machineStatusToResult(r.value, r.context)

\* statusChanged(prev, next); NoStatus is the undefined previous status
NoStatus == [status |-> "none"]
statusChanged(prev, next) ==
    IF prev = NoStatus THEN TRUE
    ELSE \/ prev.status # next.status
         \/ prev.lastRole # next.lastRole
         \/ prev.hasPendingToolUse # next.hasPendingToolUse

(***************************************************************************)
(* The watcher's world: log files, signal files, the clock.                *)
(***************************************************************************)
Sids == {"s1", "s2"}

\* concurrent handleFile passes in flight
MaxPasses == 2
\* concurrent handlePendingPermission calls in flight
MaxPermCalls == 1
\* records in one log file
MaxLines == 2

\* concurrent handleFile passes in flight while signals are handled
OverlayPasses == 1

\* the instants the clock visits while signals are handled
OverlayClock == { Epoch, Epoch + STALE_TIMEOUT_MS + 1 }

\* the log written while signals are handled: it appears with its prompt,
\* then come a tool call and the tool's result
OverlayLogs ==
    { <<UserString, AssistantTool(<<"t1">>), UserResult(<<"t1">>)>> }

\* the record shapes written to the watched logs
LogShapes ==
    { UserString, AssistantTool(<<"t1">>), UserResult(<<"t1">>),
      SystemEntry("turn_duration") }

\* the shapes the next record of a log of at most MaxLines records may have
PassAppends(lines) == IF Len(lines) < MaxLines THEN LogShapes ELSE {}

ShapeOf(entry) == Shape(entry.type, entry.kind, entry.blocks, entry.subtype)

\* the shapes the next record may have for the log to stay one of OverlayLogs
OverlayAppends(lines) ==
    { log[Len(lines) + 1] :
        log \in { l \in OverlayLogs :
                    /\ Len(lines) < Len(l)
                    /\ \A i \in 1..Len(lines) : ShapeOf(lines[i]) = l[i] } }

Null == "null"

VARIABLES
    now,                \* Date.now()
    files,              \* sid -> [exists, removed, lines]: the session's log file
    signalFile,         \* sid -> absent | valid | malformed: <sid>.json
    repoBranch,         \* sid -> the branch getGitInfoCached(cwd) resolves
    sessions,           \* this.sessions
    pendingPermissions, \* this.pendingPermissions (the sids it holds)
    debounceTimers,     \* this.debounceTimers (the pending timers)
    passes,             \* bag of handleFile calls suspended at an await
    permCalls,          \* bag of handlePendingPermission calls at their await
    unlinkNotifs,       \* signal files whose unlink notification is queued
    emitted,            \* the events the last step published
    step,               \* the last step: [name, sid]
    actor,              \* snapshot [value, context] of the status actor
    evEntries,          \* the entries deriveStatusFromMachine was called with
    fed,                \* entries (events) the actor has been fed
    phase,              \* idle | replay | done | sending
    results,            \* what the calls under evaluation returned, in order
    orchestrator        \* [watcher, staleCheckInterval, start, listed, toLoad,
                        \* stopped]: the watchers, the sweep timer and the
                        \* position of start() and of stop()

worldVars == <<now, files, signalFile, repoBranch>>
watcherVars == <<sessions, pendingPermissions, debounceTimers, passes, permCalls,
                 unlinkNotifs>>
traceVars == <<emitted, step>>
evalVars == <<actor, evEntries, fed, phase, results>>
vars == <<worldVars, watcherVars, traceVars, evalVars, orchestrator>>

NoSession == [exists |-> FALSE]
\* a log file: absent until written, append-only while it exists, gone for
\* good once removed (a session's log is named by its unique identifier)
NoFile == [exists |-> FALSE, removed |-> FALSE, lines |-> <<>>]
RemovedFile == [exists |-> FALSE, removed |-> TRUE, lines |-> <<>>]

SessionState(entries, bytePosition, status, gitBranch, branchChanged, pendingPermission) ==
    [exists |-> TRUE, entries |-> entries, bytePosition |-> bytePosition,
     status |-> status, gitBranch |-> gitBranch, branchChanged |-> branchChanged,
     pendingPermission |-> pendingPermission]

SessionEvent(type, sid, session) ==
    [type |-> type, sid |-> sid, status |-> session.status,
     pendingPermission |-> session.pendingPermission]

\* the handler that ran to its end in the last step (NoStep: none did)
Step(name, sid) == [name |-> name, sid |-> sid]
NoStep == Step("", "")

(***************************************************************************)
(* parser.ts: the log reader and the metadata extraction.                  *)
(***************************************************************************)
\* bytes of one record's line, its newline included
LineBytes(entry) == 8 + Len(entry.blocks)

RECURSIVE ByteLength(_)
ByteLength(lines) ==
    IF lines = <<>> THEN 0 ELSE LineBytes(Head(lines)) + ByteLength(Tail(lines))

\* a reader returning every record whose line ends at or after fromByte
tailFromLineEnd(lines, fromByte) ==
    LET endOf(i) == ByteLength(SubSeq(lines, 1, i))
        fresh == {i \in 1..Len(lines) : endOf(i) >= fromByte}
    IN [entries |-> SubSeq(lines, Len(lines) - Cardinality(fresh) + 1, Len(lines)),
        newPosition |-> IF fromByte >= ByteLength(lines) THEN fromByte
                        ELSE ByteLength(lines)]

\* the records whose line starts at or after fromByte, and the offset after
\* the last complete line
tailJSONL(lines, fromByte) ==
    LET startOf(i) == ByteLength(SubSeq(lines, 1, i - 1))
        fresh == {i \in 1..Len(lines) : startOf(i) >= fromByte}
    IN [entries |-> SubSeq(lines, Len(lines) - Cardinality(fresh) + 1, Len(lines)),
        newPosition |-> IF fromByte >= ByteLength(lines) THEN fromByte
                        ELSE ByteLength(lines)]

\* the branch recorded in the log's records
LogBranch == "main"

\* the minimum metadata: a working directory and an originating prompt
IsPrompt(entry) ==
    /\ entry.type = "user"
    /\ \/ entry.kind = "string"
       \/ \E i \in 1..Len(entry.blocks) : IsTextBlock(entry.blocks[i])

extractMetadata(entries) ==
    [ok |-> \E i \in 1..Len(entries) : IsPrompt(entries[i]), gitBranch |-> LogBranch]

(***************************************************************************)
(* SessionWatcher.                                                         *)
(***************************************************************************)
Put(bag, x) == bag (+) SetToBag({x})
Take(bag, x) == bag (-) SetToBag({x})

\* a handleFile call: existing is its existingSession, live tells whether that
\* object is still the one the registry holds (and so still mutated in place)
NewPass(sid, eventType) ==
    [sid |-> sid, eventType |-> eventType, pc |-> "tailJSONL",
     existing |-> sessions[sid], live |-> sessions[sid].exists,
     newEntries |-> <<>>, newPosition |-> 0,
     gitBranch |-> Null, branchChanged |-> FALSE, sawSignal |-> FALSE]

\* the registry's object of sid was mutated in place to session
Mutated(bag, sid, session) ==
    BagOfAll(LAMBDA q : IF q.sid = sid /\ q.live
                          THEN [q EXCEPT !.existing = session] ELSE q, bag)

\* the registry's object of sid was replaced or removed
Detached(bag, sid) ==
    BagOfAll(LAMBDA q : IF q.sid = sid THEN [q EXCEPT !.live = FALSE] ELSE q, bag)

PassesOf(sid) == {q \in BagToSet(passes) : q.sid = sid}
InFlight(sid) == BagCardinality([q \in PassesOf(sid) |-> passes[q]])

\* the accumulated entries replaced by the entries just read
NewEntriesOnly(p) == p.newEntries

AllEntries(p) ==
    IF p.existing.exists THEN p.existing.entries \o p.newEntries ELSE p.newEntries

\* newEntries.some(entry => user entry whose content array has a tool_result)
hasToolResult(newEntries) ==
    \E i \in 1..Len(newEntries) :
        /\ newEntries[i].type = "user"
        /\ newEntries[i].kind = "array"
        /\ \E j \in 1..Len(newEntries[i].blocks) :
               IsToolResultBlock(newEntries[i].blocks[j])

\* the derived status left as it is
KeepStatus(status) == status

\* { ...status, status: "waiting", hasPendingToolUse: true }
OverrideStatus(status) ==
    [status EXCEPT !.status = "waiting", !.hasPendingToolUse = TRUE]

\* a || b on branches
OrElse(a, b) == IF a # Null THEN a ELSE b

\* the session built as if the overlay were held
BuildOverlaid(p, overlay, t) ==
    SessionState(AllEntries(p), p.newPosition,
                 OverrideStatus(deriveStatus(AllEntries(p), t)),
                 p.gitBranch, p.branchChanged, TRUE)

\* handleFile from "Derive status from all entries" to the session it builds
BuildSession(p, overlay, t) ==
    SessionState(AllEntries(p), p.newPosition,
                 IF overlay THEN OverrideStatus(deriveStatus(AllEntries(p), t))
                 ELSE deriveStatus(AllEntries(p), t),
                 p.gitBranch, p.branchChanged, overlay)

\* handleFile's "Emit event"
EmitForPass(p, session) ==
    LET isNew == ~p.existing.exists
        previousStatus == IF isNew THEN NoStatus ELSE p.existing.status
        hasStatusChange == statusChanged(previousStatus, session.status)
        hasNewMessages ==
            ~isNew /\ session.status.messageCount > p.existing.status.messageCount
    IN IF isNew THEN <<SessionEvent("created", p.sid, session)>>
       ELSE IF hasStatusChange \/ hasNewMessages \/ p.branchChanged
         THEN <<SessionEvent("updated", p.sid, session)>>
       ELSE <<>>

\* the tail of handleFile: this.sessions.set(sessionId, session) and the emit
StoreAndEmit(p, rest) ==
    LET session == BuildSession(p, p.sid \in pendingPermissions', now)
    IN /\ sessions' = [sessions EXCEPT ![p.sid] = session]
       /\ passes' = Detached(rest, p.sid)
       /\ emitted' = EmitForPass(p, session)

(***************************************************************************)
(* The environment: the clock, the log files, the signal files.            *)
(***************************************************************************)
\* time passes, whatever is suspended at an await
Elapse(t) ==
    /\ t > now
    /\ now' = t
    /\ emitted' = <<>>
    /\ UNCHANGED evalVars
    /\ step' = NoStep
    /\ UNCHANGED <<orchestrator, files, signalFile, repoBranch, watcherVars>>

\* time passes between bursts of activity: no call is suspended at an await
Tick(t) ==
    /\ passes = EmptyBag
    /\ permCalls = EmptyBag
    /\ Elapse(t)

\* a record is appended to the log
AppendRecord(sid, shape) ==
    /\ files[sid].exists
    /\ files' = [files EXCEPT ![sid].lines =
                    Append(@, Entry(Len(@) + 1, shape, now))]
    /\ emitted' = <<>>
    /\ UNCHANGED evalVars
    /\ step' = NoStep
    /\ UNCHANGED <<orchestrator, now, signalFile, repoBranch, watcherVars>>

(***************************************************************************)
(* handleFile, one action per stretch between two awaits.                  *)
(***************************************************************************)
\* watcher "add": the file appears, holding the records first, and
\* handleFile(path, "add") starts
FileAdded(sid, first, limit) ==
    /\ ~files[sid].exists
    /\ ~files[sid].removed
    /\ BagCardinality(passes) < limit
    /\ files' = [files EXCEPT ![sid] =
                    [exists |-> TRUE, removed |-> FALSE,
                     lines |-> [i \in 1..Len(first) |-> Entry(i, first[i], now)]]]
    /\ passes' = Put(passes, NewPass(sid, "add"))
    /\ emitted' = <<>>
    /\ UNCHANGED evalVars
    /\ step' = NoStep
    /\ UNCHANGED <<orchestrator, now, signalFile, repoBranch, sessions, pendingPermissions,
                   debounceTimers, permCalls, unlinkNotifs>>

\* this.debounceMs = options.debounceMs ?? 200
debounceMs == 200

\* a pending setTimeout of debouncedHandleFile: the file it is for, the
\* instant it is due, and (history) whether it took the place of a timer
\* that was due earlier
Timer(sid, due, coalesced) == [sid |-> sid, due |-> due, coalesced |-> coalesced]

TimersOf(sid) == {timer \in debounceTimers : timer.sid = sid}

\* the existing timer left running
KeepTimeout(timers, sid) == timers

\* existing = this.debounceTimers.get(filepath); if (existing) clearTimeout(existing)
clearTimeout(timers, sid) == {timer \in timers : timer.sid # sid}

\* watcher "change": debouncedHandleFile(path)
debouncedHandleFile(sid) ==
    /\ files[sid].exists
    /\ debounceTimers' =
          clearTimeout(debounceTimers, sid)
             \cup {Timer(sid, now + debounceMs,
                         \E timer \in TimersOf(sid) : timer.due < now + debounceMs)}
    /\ emitted' = <<>>
    /\ UNCHANGED evalVars
    /\ step' = NoStep
    /\ UNCHANGED <<orchestrator, worldVars, sessions, pendingPermissions, passes, permCalls,
                   unlinkNotifs>>

\* a timer callback that forgets the timer and starts no pass
TimerDropped(timer, limit) ==
    /\ timer \in debounceTimers
    /\ BagCardinality(passes) < limit
    /\ debounceTimers' = debounceTimers \ {timer}
    /\ passes' = passes
    /\ emitted' = <<>>
    /\ UNCHANGED evalVars
    /\ step' = NoStep
    /\ UNCHANGED <<orchestrator, worldVars, sessions, pendingPermissions, permCalls, unlinkNotifs>>

\* the debounce timer fires: handleFile(path, "change") starts
DebounceFired(timer, limit) ==
    /\ timer \in debounceTimers
    /\ BagCardinality(passes) < limit
    /\ debounceTimers' = debounceTimers \ {timer}
    /\ passes' = Put(passes, NewPass(timer.sid, "change"))
    /\ emitted' = <<>>
    /\ UNCHANGED evalVars
    /\ step' = NoStep
    /\ UNCHANGED <<orchestrator, worldVars, sessions, pendingPermissions, permCalls, unlinkNotifs>>

\* a new session's pass let through whatever its records hold
AlwaysEnoughData(q) == FALSE

\* metadata = extractMetadata(allEntries); if (!metadata) return
NotEnoughData(q) == ~q.existing.exists /\ ~extractMetadata(AllEntries(q)).ok

\* this.emit("error", error)
ErrorEvent(sid) ==
    [type |-> "error", sid |-> sid, status |-> NoStatus, pendingPermission |-> FALSE]

\* a catch that publishes whatever was thrown
PublishEveryError(sid, code) == <<ErrorEvent(sid)>>

\* handleFile's catch: ENOENT is dropped, every other error is published
OnReadError(sid, code) == IF code = "ENOENT" THEN <<>> ELSE <<ErrorEvent(sid)>>

\* tailJSONL rejects with an error other than ENOENT (the file cannot be
\* read): handleFile ends in its catch
HandleFileFail(p) ==
    /\ BagIn(p, passes)
    /\ p.pc = "tailJSONL"
    /\ files[p.sid].exists
    /\ passes' = Take(passes, p)
    /\ emitted' = OnReadError(p.sid, "EACCES")
    /\ UNCHANGED evalVars
    /\ step' = Step("handleFile:error", p.sid)
    /\ UNCHANGED <<orchestrator, worldVars, sessions, pendingPermissions,
                   debounceTimers, permCalls, unlinkNotifs>>

\* a read after which handleFile goes on whether it produced records or not
ReadWithoutEarlyReturn(p) ==
    /\ BagIn(p, passes)
    /\ p.pc = "tailJSONL"
    /\ LET r == tailJSONL(files[p.sid].lines,
                          IF p.existing.exists THEN p.existing.bytePosition ELSE 0)
           q == [p EXCEPT !.pc = "getGitInfoCached", !.newEntries = r.entries,
                          !.newPosition = r.newPosition]
       IN passes' =
            IF ~files[p.sid].exists THEN Take(passes, p)
            ELSE IF NotEnoughData(q) THEN Take(passes, p)
            ELSE Put(Take(passes, p), q)
    /\ emitted' = IF ~files[p.sid].exists THEN OnReadError(p.sid, "ENOENT") ELSE <<>>
    /\ UNCHANGED evalVars
    /\ step' = LET r == tailJSONL(files[p.sid].lines,
                                   IF p.existing.exists THEN p.existing.bytePosition
                                   ELSE 0)
               IN IF ~files[p.sid].exists THEN Step("handleFile:ENOENT", p.sid)
                  ELSE IF r.entries = <<>> /\ p.existing.exists
                    THEN Step("handleFile:noNewData", p.sid)
                  ELSE IF NotEnoughData([p EXCEPT !.newEntries = r.entries])
                    THEN Step("handleFile:notEnoughData", p.sid) ELSE NoStep
    /\ UNCHANGED <<orchestrator, worldVars, sessions, pendingPermissions, debounceTimers,
                   permCalls, unlinkNotifs>>

\* tailJSONL resolves (or throws ENOENT); handleFile runs to its next await
HandleFileRead(p) ==
    /\ BagIn(p, passes)
    /\ p.pc = "tailJSONL"
    /\ LET r == tailJSONL(files[p.sid].lines,
                          IF p.existing.exists THEN p.existing.bytePosition ELSE 0)
           q == [p EXCEPT !.pc = "getGitInfoCached", !.newEntries = r.entries,
                          !.newPosition = r.newPosition]
       IN passes' =
            IF ~files[p.sid].exists THEN Take(passes, p)
            ELSE IF r.entries = <<>> /\ p.existing.exists THEN Take(passes, p)
            ELSE IF NotEnoughData(q) THEN Take(passes, p)
            ELSE Put(Take(passes, p), q)
    /\ emitted' = IF ~files[p.sid].exists THEN OnReadError(p.sid, "ENOENT") ELSE <<>>
    /\ UNCHANGED evalVars
    /\ step' = LET r == tailJSONL(files[p.sid].lines,
                                   IF p.existing.exists THEN p.existing.bytePosition
                                   ELSE 0)
               IN IF ~files[p.sid].exists THEN Step("handleFile:ENOENT", p.sid)
                  ELSE IF r.entries = <<>> /\ p.existing.exists
                    THEN Step("handleFile:noNewData", p.sid)
                  ELSE IF NotEnoughData([p EXCEPT !.newEntries = r.entries])
                    THEN Step("handleFile:notEnoughData", p.sid) ELSE NoStep
    /\ UNCHANGED <<orchestrator, worldVars, sessions, pendingPermissions, debounceTimers,
                   permCalls, unlinkNotifs>>

\* the branch handleFile settles on once getGitInfoCached has resolved
ResolveBranch(p, currentBranch) ==
    LET changed == p.existing.exists /\ currentBranch # p.existing.gitBranch
        gitInfoBranch == IF p.existing.exists /\ ~changed
                           THEN p.existing.gitBranch ELSE currentBranch
        metadataBranch == IF p.existing.exists THEN p.existing.gitBranch
                          ELSE extractMetadata(AllEntries(p)).gitBranch
    IN [p EXCEPT !.gitBranch = OrElse(gitInfoBranch, metadataBranch),
                 !.branchChanged = changed]

\* getGitInfoCached resolves; handleFile runs to clearPendingPermission's
\* unlink, or to its end
HandleFileGit(p) ==
    /\ BagIn(p, passes)
    /\ p.pc = "getGitInfoCached"
    /\ LET q == ResolveBranch(p, repoBranch[p.sid])
       IN IF hasToolResult(p.newEntries) /\ p.sid \in pendingPermissions
            THEN /\ pendingPermissions' = pendingPermissions \ {p.sid}
                 /\ passes' = Put(Take(passes, p), [q EXCEPT !.pc = "unlink"])
                 /\ emitted' = <<>>
                 /\ UNCHANGED sessions
            ELSE /\ pendingPermissions' = pendingPermissions
                 /\ StoreAndEmit(q, Take(passes, p))
    /\ UNCHANGED evalVars
    /\ step' = IF hasToolResult(p.newEntries) /\ p.sid \in pendingPermissions
                 THEN NoStep ELSE Step("handleFile", p.sid)
    /\ UNCHANGED <<orchestrator, worldVars, debounceTimers, permCalls, unlinkNotifs>>

\* clearPendingPermission's unlink of <sid>.json takes place
UnlinkSignal(p) ==
    /\ BagIn(p, passes)
    /\ p.pc = "unlink"
    /\ signalFile' = [signalFile EXCEPT ![p.sid] = "absent"]
    /\ unlinkNotifs' = IF signalFile[p.sid] # "absent"
                         THEN unlinkNotifs \cup {p.sid} ELSE unlinkNotifs
    /\ passes' = Put(Take(passes, p), [p EXCEPT !.pc = "unlinked"])
    /\ emitted' = <<>>
    /\ UNCHANGED evalVars
    /\ step' = NoStep
    /\ UNCHANGED <<orchestrator, now, files, repoBranch, sessions, pendingPermissions,
                   debounceTimers, permCalls>>

\* clearPendingPermission has resolved; handleFile runs to its end
HandleFileFinish(p) ==
    /\ BagIn(p, passes)
    /\ p.pc = "unlinked"
    /\ pendingPermissions' = pendingPermissions
    /\ StoreAndEmit(p, Take(passes, p))
    /\ UNCHANGED evalVars
    /\ step' = Step("handleFile:cleared", p.sid)
    /\ UNCHANGED <<orchestrator, worldVars, debounceTimers, permCalls, unlinkNotifs>>

\* an unlink handler that empties the registry
ClearOnDelete(sid) ==
    /\ files[sid].exists
    /\ files' = [files EXCEPT ![sid] = RemovedFile]
    /\ sessions' = [other \in Sids |-> NoSession]
    /\ passes' = Detached(passes, sid)
    /\ emitted' = IF sessions[sid].exists
                    THEN <<SessionEvent("deleted", sid, sessions[sid])>> ELSE <<>>
    /\ UNCHANGED evalVars
    /\ step' = Step("handleDelete", sid)
    /\ UNCHANGED <<orchestrator, now, signalFile, repoBranch, pendingPermissions,
                   debounceTimers, permCalls, unlinkNotifs>>

\* watcher "unlink": the file is removed and handleDelete(path) runs
handleDelete(sid) ==
    /\ files[sid].exists
    /\ files' = [files EXCEPT ![sid] = RemovedFile]
    /\ sessions' = [sessions EXCEPT ![sid] = NoSession]
    /\ passes' = Detached(passes, sid)
    /\ emitted' = IF sessions[sid].exists
                    THEN <<SessionEvent("deleted", sid, sessions[sid])>> ELSE <<>>
    /\ UNCHANGED evalVars
    /\ step' = Step("handleDelete", sid)
    /\ UNCHANGED <<orchestrator, now, signalFile, repoBranch, pendingPermissions, debounceTimers,
                   permCalls, unlinkNotifs>>

(***************************************************************************)
(* The permission signal: handlePendingPermission and its removal.         *)
(***************************************************************************)
\* permissionWatcher "add"/"change": <sid>.json is written (content valid or
\* malformed) and handlePendingPermission(path) starts, up to its readFile
SignalWritten(sid, content, limit) ==
    /\ sid \notin unlinkNotifs
    /\ BagCardinality(permCalls) < limit
    /\ signalFile' = [signalFile EXCEPT ![sid] = content]
    /\ permCalls' = Put(permCalls, [sid |-> sid, pc |-> "readFile"])
    /\ emitted' = <<>>
    /\ UNCHANGED evalVars
    /\ step' = NoStep
    /\ UNCHANGED <<orchestrator, now, files, repoBranch, sessions, pendingPermissions,
                   debounceTimers, passes, unlinkNotifs>>

\* the overlay asserted on a session whose records it forgets
WithPermissionOnly(session) ==
    [session EXCEPT !.pendingPermission = TRUE, !.status = OverrideStatus(@),
                    !.entries = <<>>]

\* an overlay that a second signal for the session takes off again
TogglePermission(session) ==
    [session EXCEPT !.pendingPermission = ~@, !.status = OverrideStatus(@)]

\* session.pendingPermission = permission; session.status = { ... waiting }
WithPermission(session) ==
    [session EXCEPT !.pendingPermission = TRUE, !.status = OverrideStatus(@)]

\* history: the passes of sid suspended in clearPendingPermission saw a signal
\* being applied meanwhile
SawSignal(bag, sid) ==
    BagOfAll(LAMBDA q : IF q.sid = sid /\ q.pc \in {"unlink", "unlinked"}
                          THEN [q EXCEPT !.sawSignal = TRUE] ELSE q, bag)

\* a handler that keeps a permission only for a session the registry holds
SignalForKnownSession(c) ==
    /\ BagIn(c, permCalls)
    /\ permCalls' = Take(permCalls, c)
    /\ IF signalFile[c.sid] # "valid" \/ ~sessions[c.sid].exists
         THEN /\ emitted' = <<>>
              /\ UNCHANGED <<sessions, pendingPermissions, passes>>
         ELSE /\ pendingPermissions' = pendingPermissions \cup {c.sid}
              /\ sessions' = [sessions EXCEPT ![c.sid] = WithPermission(@)]
              /\ emitted' = <<SessionEvent("updated", c.sid, sessions'[c.sid])>>
              /\ passes' = Mutated(SawSignal(passes, c.sid), c.sid, sessions'[c.sid])
    /\ UNCHANGED evalVars
    /\ step' = Step("handlePendingPermission", c.sid)
    /\ UNCHANGED <<orchestrator, worldVars, debounceTimers, unlinkNotifs>>

\* a handler that takes whatever the signal file holds for a permission
AcceptAnySignal(c) ==
    /\ BagIn(c, permCalls)
    /\ permCalls' = Take(permCalls, c)
    /\ IF signalFile[c.sid] = "absent"
         THEN /\ emitted' = <<>>
              /\ UNCHANGED <<sessions, pendingPermissions, passes>>
         ELSE /\ pendingPermissions' = pendingPermissions \cup {c.sid}
              /\ IF sessions[c.sid].exists
                   THEN /\ sessions' = [sessions EXCEPT ![c.sid] = WithPermission(@)]
                        /\ emitted' =
                             <<SessionEvent("updated", c.sid, sessions'[c.sid])>>
                        /\ passes' = Mutated(SawSignal(passes, c.sid), c.sid,
                                             sessions'[c.sid])
                   ELSE /\ emitted' = <<>>
                        /\ passes' = SawSignal(passes, c.sid)
                        /\ UNCHANGED sessions
    /\ UNCHANGED evalVars
    /\ step' = Step("handlePendingPermission", c.sid)
    /\ UNCHANGED <<orchestrator, worldVars, debounceTimers, unlinkNotifs>>

\* readFile resolves and handlePendingPermission runs to its end: ENOENT, a
\* parse error and a missing session_id all end the call with no effect
handlePendingPermission(c) ==
    /\ BagIn(c, permCalls)
    /\ permCalls' = Take(permCalls, c)
    /\ IF signalFile[c.sid] # "valid"
         THEN /\ emitted' = <<>>
              /\ UNCHANGED <<sessions, pendingPermissions, passes>>
         ELSE /\ pendingPermissions' = pendingPermissions \cup {c.sid}
              /\ IF sessions[c.sid].exists
                   THEN /\ sessions' = [sessions EXCEPT ![c.sid] = WithPermission(@)]
                        /\ emitted' =
                             <<SessionEvent("updated", c.sid, sessions'[c.sid])>>
                        /\ passes' = Mutated(SawSignal(passes, c.sid), c.sid,
                                             sessions'[c.sid])
                   ELSE /\ emitted' = <<>>
                        /\ passes' = SawSignal(passes, c.sid)
                        /\ UNCHANGED sessions
    /\ UNCHANGED evalVars
    /\ step' = Step("handlePendingPermission", c.sid)
    /\ UNCHANGED <<orchestrator, worldVars, debounceTimers, unlinkNotifs>>

\* the signal file is removed from outside
SignalRemoved(sid) ==
    /\ signalFile[sid] # "absent"
    /\ signalFile' = [signalFile EXCEPT ![sid] = "absent"]
    /\ unlinkNotifs' = unlinkNotifs \cup {sid}
    /\ emitted' = <<>>
    /\ UNCHANGED evalVars
    /\ step' = NoStep
    /\ UNCHANGED <<orchestrator, now, files, repoBranch, sessions, pendingPermissions,
                   debounceTimers, passes, permCalls>>

\* the overlay dropped, the overridden status kept
FlagDropped(session, t) == [session EXCEPT !.pendingPermission = FALSE]

\* session.pendingPermission = undefined; session.status = deriveStatus(entries)
WithoutPermission(session, t) ==
    [session EXCEPT !.pendingPermission = FALSE,
                    !.status = deriveStatus(session.entries, t)]

\* permissionWatcher "unlink"
handlePendingPermissionRemoved(sid) ==
    /\ sid \in unlinkNotifs
    /\ unlinkNotifs' = unlinkNotifs \ {sid}
    /\ pendingPermissions' = pendingPermissions \ {sid}
    /\ IF sessions[sid].exists /\ sessions[sid].pendingPermission
         THEN /\ sessions' = [sessions EXCEPT ![sid] = WithoutPermission(@, now)]
              /\ emitted' = <<SessionEvent("updated", sid, sessions'[sid])>>
              /\ passes' = Mutated(passes, sid, sessions'[sid])
         ELSE /\ emitted' = <<>>
              /\ UNCHANGED <<sessions, passes>>
    /\ UNCHANGED evalVars
    /\ step' = Step("handlePendingPermissionRemoved", sid)
    /\ UNCHANGED <<orchestrator, worldVars, debounceTimers, permCalls>>

(***************************************************************************)
(* The staleness sweep.                                                    *)
(***************************************************************************)
\* a sweep that re-derives the status of every session, whatever it reports
SweptWhateverStatus(session, t) ==
    IF session.exists
         /\ statusChanged(session.status, deriveStatus(session.entries, t))
      THEN [session EXCEPT !.status = deriveStatus(session.entries, t)]
      ELSE session

\* one session of the sweep's loop
Swept(session, t) ==
    IF session.exists /\ session.status.status = "working"
         /\ statusChanged(session.status, deriveStatus(session.entries, t))
      THEN [session EXCEPT !.status = deriveStatus(session.entries, t)]
      ELSE session

SidOrder == <<"s1", "s2">>

RECURSIVE SweepEvents(_, _)
SweepEvents(sids, after) ==
    IF sids = <<>> THEN <<>>
    ELSE (IF after[Head(sids)] # sessions[Head(sids)]
            THEN <<SessionEvent("updated", Head(sids), after[Head(sids)])>>
            ELSE <<>>) \o SweepEvents(Tail(sids), after)

RECURSIVE MutatedAll(_, _, _)
MutatedAll(bag, sids, after) ==
    IF sids = <<>> THEN bag
    ELSE MutatedAll(Mutated(bag, Head(sids), after[Head(sids)]), Tail(sids), after)

checkStaleSessions ==
    /\ sessions' = [sid \in Sids |-> Swept(sessions[sid], now)]
    /\ emitted' = SweepEvents(SidOrder, sessions')
    /\ passes' = MutatedAll(passes, SidOrder, sessions')
    /\ UNCHANGED evalVars
    /\ step' = Step("checkStaleSessions", "")
    /\ UNCHANGED <<orchestrator, worldVars, pendingPermissions, debounceTimers, permCalls,
                   unlinkNotifs>>

(***************************************************************************)
(* deriveStatusFromMachine, one action per statement of its body, and an   *)
(* actor driven by events sent to it directly.                             *)
(***************************************************************************)
\* the distances between the last record and the evaluation: on and just
\* past each timeout
Delays ==
    { 0, APPROVAL_TIMEOUT_MS, APPROVAL_TIMEOUT_MS + 1, STALE_TIMEOUT_MS,
      STALE_TIMEOUT_MS + 1, IDLE_TIMEOUT_MS, IDLE_TIMEOUT_MS + 1 }

\* the logs an evaluation replays: record i is written at Epoch + i
EvalLogs == UNION { [1..n -> EvalShapes] : n \in 0..MaxEntries }
Stamp(log) == [i \in 1..Len(log) |-> Entry(i, log[i], Epoch + i)]

\* the status events of the machine's event type, stamped ts
StatusEvents(ts) ==
    { Event("USER_PROMPT", ts, <<>>), Event("TOOL_RESULT", ts, <<"t1">>),
      Event("ASSISTANT_STREAMING", ts, <<>>),
      Event("ASSISTANT_TOOL_USE", ts, <<"t1">>),
      Event("ASSISTANT_TOOL_USE", ts, <<"t1", "t2">>),
      Event("TURN_END", ts, <<>>), TimeoutEvent("IDLE_TIMEOUT"),
      TimeoutEvent("APPROVAL_TIMEOUT"), TimeoutEvent("STALE_TIMEOUT") }

\* deriveStatusFromMachine(entries) is entered, for some log and some
\* reading of the clock: the actor is created and started
StartEvaluation ==
    /\ phase = "idle"
    /\ \E log \in EvalLogs, d \in Delays :
         /\ evEntries' = Stamp(log)
         /\ now' = Epoch + Len(log) + d
    /\ actor' = CreateActor(actor)
    /\ fed' = 0
    /\ phase' = "replay"
    /\ results' = <<>>
    /\ UNCHANGED <<orchestrator, files, signalFile, repoBranch, watcherVars, traceVars>>

\* one turn of the loop over entries
FeedEntry ==
    /\ phase = "replay"
    /\ fed < Len(evEntries)
    /\ actor' = SendEntry(actor, evEntries[fed + 1])
    /\ fed' = fed + 1
    /\ UNCHANGED <<orchestrator, evEntries, phase, results, worldVars, watcherVars, traceVars>>

\* the timeout check after the loop, and the return of the final snapshot
CheckTimeouts ==
    /\ phase = "replay"
    /\ fed = Len(evEntries)
    /\ actor' = ApplyTimeouts(actor, now)
    /\ results' = Append(results, actor')
    /\ phase' = "done"
    /\ UNCHANGED <<orchestrator, evEntries, fed, worldVars, watcherVars, traceVars>>

\* deriveStatusFromMachine is called again with the same entries while the
\* clock still reads the same instant
Replay ==
    /\ phase = "done"
    /\ Len(results) < Replays
    /\ actor' = CreateActor(actor)
    /\ fed' = 0
    /\ phase' = "replay"
    /\ UNCHANGED <<orchestrator, evEntries, results, worldVars, watcherVars, traceVars>>

\* createActor(statusMachine).start() by a client of the machine
StartActor ==
    /\ phase = "idle"
    /\ actor' = CreateActor(actor)
    /\ phase' = "sending"
    /\ UNCHANGED <<orchestrator, evEntries, fed, results, worldVars, watcherVars, traceVars>>

\* actor.send(event) by a client of the machine
SendEvent(event) ==
    /\ phase = "sending"
    /\ fed < MaxEvents
    /\ actor' = Send(actor, event)
    /\ fed' = fed + 1
    /\ UNCHANGED <<orchestrator, evEntries, phase, results, worldVars, watcherVars, traceVars>>

(***************************************************************************)
(* The orchestrator.                                                       *)
(***************************************************************************)
\* the SessionWatcher's watchers (this.watcher and this.permissionWatcher:
\* listening or not), its sweep timer (this.staleCheckInterval: set or not),
\* the await start() is at (none: not called; ready, readdir, load; done: it
\* has returned), the signal files readdir listed and those of them still
\* to be loaded, and (history) whether stop() has been called
Orchestrator(watcher, staleCheckInterval, start, listed, toLoad, stopped) ==
    [watcher |-> watcher, staleCheckInterval |-> staleCheckInterval,
     start |-> start, listed |-> listed, toLoad |-> toLoad, stopped |-> stopped]

\* constructed, start() not called
Constructed == Orchestrator(FALSE, FALSE, "none", {}, {}, FALSE)

\* start() has returned
Started == Orchestrator(TRUE, TRUE, "done", {}, {}, FALSE)

Init ==
    /\ now = Epoch
    /\ orchestrator = Started
    /\ files = [sid \in Sids |-> NoFile]
    /\ signalFile = [sid \in Sids |-> "absent"]
    /\ repoBranch = [sid \in Sids |-> "main"]
    /\ sessions = [sid \in Sids |-> NoSession]
    /\ pendingPermissions = {}
    /\ debounceTimers = {}
    /\ passes = EmptyBag
    /\ permCalls = EmptyBag
    /\ unlinkNotifs = {}
    /\ emitted = <<>>
    /\ step = NoStep
    /\ actor = Snapshot("waiting_for_input", InitialContext)
    /\ evEntries = <<>>
    /\ fed = 0
    /\ phase = "idle"
    /\ results = <<>>

\* the session whose files the environment touches
Watched == {"s1"}

\* events sent to one actor of the status machine
NextMachine ==
    \/ StartActor
    \/ \E event \in StatusEvents(Epoch + fed + 1) : SendEvent(event)

SpecMachine == Init /\ [][NextMachine]_vars

\* evaluations of a log by deriveStatusFromMachine
NextEval ==
    \/ StartEvaluation
    \/ FeedEntry
    \/ CheckTimeouts
    \/ Replay

SpecEval == Init /\ [][NextEval]_vars

\* handleFile passes over a growing, then removed, log
NextPasses ==
    \/ \E sid \in Watched :
          \E shape \in PassAppends(files[sid].lines) : AppendRecord(sid, shape)
    \/ \E sid \in Watched : FileAdded(sid, <<>>, MaxPasses)
    \/ \E sid \in Watched : debouncedHandleFile(sid)
    \/ \E timer \in debounceTimers : DebounceFired(timer, MaxPasses)
    \/ \E p \in BagToSet(passes) : HandleFileRead(p)
    \/ \E p \in BagToSet(passes) : HandleFileGit(p)
    \/ \E sid \in Watched : handleDelete(sid)

SpecPasses == Init /\ [][NextPasses]_vars

\* the permission overlay over handleFile passes, the sweep and the clock
NextOverlay ==
    \/ \E t \in OverlayClock : Tick(t)
    \/ \E sid \in Watched :
          \E shape \in OverlayAppends(files[sid].lines) : AppendRecord(sid, shape)
    \/ \E sid \in Watched : FileAdded(sid, <<UserString>>, OverlayPasses)
    \/ \E sid \in Watched : debouncedHandleFile(sid)
    \/ \E timer \in debounceTimers : DebounceFired(timer, OverlayPasses)
    \/ \E p \in BagToSet(passes) : HandleFileRead(p)
    \/ \E p \in BagToSet(passes) : HandleFileGit(p)
    \/ \E p \in BagToSet(passes) : UnlinkSignal(p)
    \/ \E p \in BagToSet(passes) : HandleFileFinish(p)
    \/ \E sid \in Watched : SignalWritten(sid, "valid", MaxPermCalls)
    \/ \E c \in BagToSet(permCalls) : handlePendingPermission(c)
    \/ \E sid \in Watched : SignalRemoved(sid)
    \/ \E sid \in Watched : handlePendingPermissionRemoved(sid)
    \/ checkStaleSessions

SpecOverlay == Init /\ [][NextOverlay]_vars

\* instants the clock visits while change notifications are debounced
MaxTicks == 6

\* the clock read every half window
DebounceClock == {Epoch + k * (debounceMs \div 2) : k \in 1..MaxTicks}

\* a timer's callback runs when the timer is due: the clock does not pass
\* a pending timer
NoTimerBefore(t) == \A timer \in debounceTimers : timer.due >= t

\* change notifications for a log, their debounce timers and the clock
NextDebounce ==
    \/ \E t \in DebounceClock : NoTimerBefore(t) /\ Tick(t)
    \/ \E sid \in Watched : FileAdded(sid, <<UserString>>, MaxPasses)
    \/ \E sid \in Watched : debouncedHandleFile(sid)
    \/ \E timer \in debounceTimers :
          timer.due <= now /\ DebounceFired(timer, MaxPasses)
    \/ \E p \in BagToSet(passes) : HandleFileRead(p)
    \/ \E p \in BagToSet(passes) : HandleFileGit(p)

SpecDebounce == Init /\ [][NextDebounce]_vars

\* the last instant at which the swept log is written
LastWrite == Epoch + APPROVAL_TIMEOUT_MS + 1

\* the instants the clock visits under the sweep: the end of a debounce
\* window, the last write, and just past each timeout after it
SweepClock ==
    { Epoch + debounceMs, LastWrite, LastWrite + APPROVAL_TIMEOUT_MS + 1,
      LastWrite + STALE_TIMEOUT_MS + 1, LastWrite + IDLE_TIMEOUT_MS + 1 }

\* the shapes the next record of the swept log may have: after its prompt come
\* a tool call or the end of the turn, and nothing after LastWrite
SweepAppends(lines) ==
    IF now <= LastWrite /\ Len(lines) < MaxLines
      THEN {AssistantTool(<<"t1">>), SystemEntry("turn_duration")} ELSE {}

\* the clock goes on
SweepTick == \E t \in SweepClock : Elapse(t)

\* the awaits of handleFile resolve
PassStep ==
    \E p \in BagToSet(passes) : HandleFileRead(p) \/ HandleFileGit(p)

\* the periodic sweep over a log that falls silent
NextSweep ==
    \/ SweepTick
    \/ \E sid \in Watched :
          \E shape \in SweepAppends(files[sid].lines) : AppendRecord(sid, shape)
    \/ \E sid \in Watched :
          now <= LastWrite /\ FileAdded(sid, <<UserString>>, MaxPasses)
    \/ \E sid \in Watched : debouncedHandleFile(sid)
    \/ \E timer \in debounceTimers :
          timer.due <= now /\ DebounceFired(timer, MaxPasses)
    \/ PassStep
    \/ checkStaleSessions

\* setInterval keeps calling checkStaleSessions, time passes, and file reads
\* and repository lookups come back. The last conjunct is WF_vars(PassStep)
\* with its enabling condition written out: no signal file is held under
\* NextSweep, so every pass in flight waits on tailJSONL or getGitInfoCached
\* and a pass step, which takes the pass out of passes or moves it on, is
\* possible exactly when passes is not empty
FairSweep ==
    /\ WF_vars(checkStaleSessions)
    /\ WF_vars(SweepTick)
    /\ ([]<>(passes = EmptyBag) \/ []<><<PassStep>>_vars)

SpecSweep == Init /\ [][NextSweep]_vars /\ FairSweep

\* records in the log read incrementally, and reads of it
MaxReadLines == 3
MaxReads == 3

\* the shapes the next record of the log read incrementally may have: lines
\* of two lengths
ReadAppends(lines) ==
    IF Len(lines) < MaxReadLines THEN {UserString, AssistantTool(<<"t1">>)} ELSE {}

\* fromByte = existingSession?.bytePosition ?? 0, the offset being the one
\* the previous read returned
fromByte(reads) == IF reads = <<>> THEN 0 ELSE reads[Len(reads)].newPosition

\* one more incremental read of the log
TailRead(sid) ==
    /\ files[sid].exists
    /\ Len(results) < MaxReads
    /\ results' = Append(results, tailJSONL(files[sid].lines, fromByte(results)))
    /\ UNCHANGED <<orchestrator, actor, evEntries, fed, phase, worldVars, watcherVars, traceVars>>

\* the log exists, empty, and has not been read
InitReads ==
    /\ orchestrator = Started
    /\ now = Epoch
    /\ files = [sid \in Sids |->
                  IF sid \in Watched
                    THEN [exists |-> TRUE, removed |-> FALSE, lines |-> <<>>]
                    ELSE NoFile]
    /\ signalFile = [sid \in Sids |-> "absent"]
    /\ repoBranch = [sid \in Sids |-> "main"]
    /\ sessions = [sid \in Sids |-> NoSession]
    /\ pendingPermissions = {}
    /\ debounceTimers = {}
    /\ passes = EmptyBag
    /\ permCalls = EmptyBag
    /\ unlinkNotifs = {}
    /\ emitted = <<>>
    /\ step = NoStep
    /\ actor = Snapshot("waiting_for_input", InitialContext)
    /\ evEntries = <<>>
    /\ fed = 0
    /\ phase = "idle"
    /\ results = <<>>

\* a growing log read incrementally, each read resuming where the last ended
NextReads ==
    \/ \E sid \in Watched :
          \E shape \in ReadAppends(files[sid].lines) : AppendRecord(sid, shape)
    \/ \E sid \in Watched : TailRead(sid)

SpecReads == InitReads /\ [][NextReads]_vars

\* the shapes the next record of a log may have while two logs are watched:
\* after the prompt comes the result of a tool
IsolationAppends(lines) ==
    IF Len(lines) < MaxLines THEN {UserResult(<<"t1">>)} ELSE {}

\* handleFile passes, failing reads, removals and permission signals over
\* the log of one session, while the log of another session is registered
\* and a permission signal is written for it
NextIsolation ==
    \/ \E sid \in Watched :
          \E shape \in IsolationAppends(files[sid].lines) : AppendRecord(sid, shape)
    \/ \E sid \in Sids : FileAdded(sid, <<UserString>>, MaxPasses)
    \/ \E sid \in Watched : debouncedHandleFile(sid)
    \/ \E timer \in debounceTimers : DebounceFired(timer, MaxPasses)
    \/ \E p \in BagToSet(passes) : HandleFileRead(p)
    \/ \E p \in BagToSet(passes) : HandleFileGit(p)
    \/ \E p \in BagToSet(passes) : HandleFileFail(p)
    \/ \E p \in BagToSet(passes) : UnlinkSignal(p)
    \/ \E p \in BagToSet(passes) : HandleFileFinish(p)
    \/ \E sid \in Watched : handleDelete(sid)
    \/ \E sid \in Sids : SignalWritten(sid, "valid", MaxPermCalls)
    \/ \E c \in BagToSet(permCalls) : handlePendingPermission(c)
    \/ \E sid \in Watched : handlePendingPermissionRemoved(sid)

SpecIsolation == Init /\ [][NextIsolation]_vars

\* records in the log of a session whose repository changes branch
MaxBranchLines == 3

\* what getGitInfoCached may resolve as the branch: a branch, another one,
\* or none (a detached HEAD, or a directory that is no repository any more)
Branches == {"main", "dev", Null}

\* the branch of the working directory is changed from outside
BranchSwitched(sid, branch) ==
    /\ branch # repoBranch[sid]
    /\ repoBranch' = [repoBranch EXCEPT ![sid] = branch]
    /\ emitted' = <<>>
    /\ step' = NoStep
    /\ UNCHANGED <<orchestrator, now, files, signalFile, watcherVars, evalVars>>

\* the shapes the next record may have while the branch changes: text the
\* assistant streams, which leaves status and message count as they are
BranchAppends(lines) ==
    IF Len(lines) < MaxBranchLines THEN {AssistantText} ELSE {}

\* handleFile passes over a growing log while the branch of its working
\* directory changes
NextBranch ==
    \/ \E sid \in Watched, branch \in Branches : BranchSwitched(sid, branch)
    \/ \E sid \in Watched :
          \E shape \in BranchAppends(files[sid].lines) : AppendRecord(sid, shape)
    \/ \E sid \in Watched : FileAdded(sid, <<UserString>>, MaxPasses)
    \/ \E sid \in Watched : debouncedHandleFile(sid)
    \/ \E timer \in debounceTimers : DebounceFired(timer, MaxPasses)
    \/ \E p \in BagToSet(passes) : HandleFileRead(p)
    \/ \E p \in BagToSet(passes) : HandleFileGit(p)

SpecBranch == Init /\ [][NextBranch]_vars

\* start() is called: the watchers are created and start() waits for the
\* initial scan to be over
start ==
    /\ orchestrator.start = "none"
    /\ ~orchestrator.stopped
    /\ orchestrator' = [orchestrator EXCEPT !.watcher = TRUE, !.start = "ready"]
    /\ emitted' = <<>>
    /\ step' = Step("start", "")
    /\ UNCHANGED <<worldVars, watcherVars, evalVars>>

\* "ready" reaches the listener start() registered, and start() calls
\* loadExistingPendingPermissions, which waits for readdir
StartReady ==
    /\ orchestrator.start = "ready"
    /\ orchestrator.watcher
    /\ orchestrator' = [orchestrator EXCEPT !.start = "readdir"]
    /\ emitted' = <<>>
    /\ step' = NoStep
    /\ UNCHANGED <<worldVars, watcherVars, evalVars>>

\* readdir resolves with the signal files there are (none when it fails)
StartListed ==
    /\ orchestrator.start = "readdir"
    /\ LET found == {sid \in Sids : signalFile[sid] # "absent"}
       IN orchestrator' = [orchestrator EXCEPT !.start = "load", !.listed = found,
                                               !.toLoad = found]
    /\ emitted' = <<>>
    /\ step' = NoStep
    /\ UNCHANGED <<worldVars, watcherVars, evalVars>>

\* the handlePendingPermission calls loadExistingPendingPermissions waits for
LoadCalls == {c \in BagToSet(permCalls) : c.pc = "load"}

\* the loop of loadExistingPendingPermissions: await handlePendingPermission
StartLoadNext ==
    /\ orchestrator.start = "load"
    /\ LoadCalls = {}
    /\ \E sid \in orchestrator.toLoad :
         /\ orchestrator' = [orchestrator EXCEPT !.toLoad = @ \ {sid}]
         /\ permCalls' = Put(permCalls, [sid |-> sid, pc |-> "load"])
    /\ emitted' = <<>>
    /\ step' = NoStep
    /\ UNCHANGED <<worldVars, sessions, pendingPermissions, debounceTimers, passes,
                   unlinkNotifs, evalVars>>

\* the loop is over: start() sets the sweep timer and returns
StartInterval ==
    /\ orchestrator.start = "load"
    /\ orchestrator.toLoad = {}
    /\ LoadCalls = {}
    /\ orchestrator' = [orchestrator EXCEPT !.staleCheckInterval = TRUE,
                                            !.start = "done"]
    /\ emitted' = <<>>
    /\ step' = Step("start:setInterval", "")
    /\ UNCHANGED <<worldVars, watcherVars, evalVars>>

\* stop(): the watchers are closed (their listeners removed), the sweep
\* timer is cleared if it is set, and so is every debounce timer
stop ==
    /\ ~orchestrator.stopped
    /\ orchestrator' = [orchestrator EXCEPT !.watcher = FALSE,
                                            !.staleCheckInterval = FALSE,
                                            !.stopped = TRUE]
    /\ debounceTimers' = {}
    /\ emitted' = <<>>
    /\ step' = Step("stop", "")
    /\ UNCHANGED <<worldVars, sessions, pendingPermissions, passes, permCalls,
                   unlinkNotifs, evalVars>>

InitLifecycle ==
    /\ orchestrator = Constructed
    /\ now = Epoch
    /\ files = [sid \in Sids |-> NoFile]
    /\ signalFile = [sid \in Sids |-> "absent"]
    /\ repoBranch = [sid \in Sids |-> "main"]
    /\ sessions = [sid \in Sids |-> NoSession]
    /\ pendingPermissions = {}
    /\ debounceTimers = {}
    /\ passes = EmptyBag
    /\ permCalls = EmptyBag
    /\ unlinkNotifs = {}
    /\ emitted = <<>>
    /\ step = NoStep
    /\ actor = Snapshot("waiting_for_input", InitialContext)
    /\ evEntries = <<>>
    /\ fed = 0
    /\ phase = "idle"
    /\ results = <<>>

\* a SessionWatcher from its construction to stop(): the watchers deliver
\* their notifications while they listen, the sweep runs while its timer is
\* set, and whatever is suspended at an await goes on
NextLifecycle ==
    \/ start
    \/ StartReady
    \/ StartListed
    \/ StartLoadNext
    \/ StartInterval
    \/ stop
    \/ \E sid \in Watched :
          orchestrator.watcher /\ FileAdded(sid, <<UserString>>, MaxPasses)
    \/ \E sid \in Watched : orchestrator.watcher /\ debouncedHandleFile(sid)
    \/ \E timer \in debounceTimers : DebounceFired(timer, MaxPasses)
    \/ \E p \in BagToSet(passes) : HandleFileRead(p)
    \/ \E p \in BagToSet(passes) : HandleFileGit(p)
    \/ \E sid \in Watched, content \in {"valid", "malformed"} :
          orchestrator.watcher /\ SignalWritten(sid, content, MaxPermCalls)
    \/ \E c \in BagToSet(permCalls) : handlePendingPermission(c)
    \/ \E sid \in Watched : SignalRemoved(sid)
    \/ \E sid \in Watched :
          orchestrator.watcher /\ handlePendingPermissionRemoved(sid)
    \/ orchestrator.staleCheckInterval /\ checkStaleSessions

SpecLifecycle == InitLifecycle /\ [][NextLifecycle]_vars

\* time passes until the earliest pending debounce timer is due
AdvanceToDue ==
    \E timer \in debounceTimers :
       /\ NoTimerBefore(timer.due)
       /\ Elapse(timer.due)

\* setTimeout's callback runs once its timer is due
TimerFires ==
    \E timer \in debounceTimers : timer.due <= now /\ DebounceFired(timer, MaxPasses)

\* change notifications that come for a while and then stop, their debounce
\* timers, the clock, and stop()
NextQuiet ==
    \/ \E t \in DebounceClock : NoTimerBefore(t) /\ Tick(t)
    \/ AdvanceToDue
    \/ \E sid \in Watched :
          orchestrator.watcher /\ FileAdded(sid, <<UserString>>, MaxPasses)
    \/ \E sid \in Watched :
          /\ orchestrator.watcher
          /\ now <= Epoch + MaxTicks * (debounceMs \div 2)
          /\ debouncedHandleFile(sid)
    \/ TimerFires
    \/ PassStep
    \/ stop

\* time passes, a timer that is due runs its callback, and the reads and
\* lookups a pass awaits come back
FairQuiet ==
    /\ WF_vars(AdvanceToDue)
    /\ WF_vars(TimerFires)
    /\ WF_vars(PassStep)

SpecQuiet == Init /\ [][NextQuiet]_vars /\ FairQuiet

\* records classified one after the other
MaxClassified == 2

\* logEntryToEvent(entry) is called on one more record, of any shape
ClassifyEntry(shape) ==
    /\ phase = "idle"
    /\ Len(evEntries) < MaxClassified
    /\ evEntries' = Append(evEntries, Entry(Len(evEntries) + 1, shape,
                                            Epoch + Len(evEntries) + 1))
    /\ results' = Append(results, logEntryToEvent(evEntries'[Len(evEntries')]))
    /\ UNCHANGED <<orchestrator, actor, fed, phase, worldVars, watcherVars, traceVars>>

\* the classifier applied to records of every shape
NextClassify == \E shape \in AllShapes : ClassifyEntry(shape)

SpecClassify == Init /\ [][NextClassify]_vars

(***************************************************************************)
(* Properties.                                                             *)
(***************************************************************************)
InitialSnapshot == Snapshot("waiting_for_input", InitialContext)

\* the complete records within the first n bytes of a log
CompleteRecords(lines, n) ==
    SubSeq(lines, 1,
           Cardinality({i \in 1..Len(lines) : ByteLength(SubSeq(lines, 1, i)) <= n}))

\* the pair the overlay overrides
StatusPair(status) == <<status.status, status.hasPendingToolUse>>

\* C1: after every event sent to an actor started in the initial state,
\* log-derived and timeout events alike, hasPendingToolUse is true if and
\* only if pendingToolIds is non-empty
PendingSetConsistent ==
    actor.context.hasPendingToolUse <=> (Len(actor.context.pendingToolIds) > 0)

\* C2: the byte offset the registry stores for a session never decreases
\* from one step to the next, overlapping passes included, and no record
\* appears twice in the session's accumulated entries
OffsetNeverDecreases ==
    [][\A sid \in Sids :
         (sessions[sid].exists /\ sessions'[sid].exists) =>
            /\ sessions'[sid].bytePosition >= sessions[sid].bytePosition
            /\ \A i, j \in 1..Len(sessions'[sid].entries) :
                 sessions'[sid].entries[i].uuid = sessions'[sid].entries[j].uuid
                    => i = j]_vars

\* C3: two handleFile passes for the same session are never in flight at
\* the same time
PassesNeverOverlap == \A sid \in Sids : InFlight(sid) <= 1

DeletedStaysDeleted ==
    \A sid \in Sids :
        /\ files[sid].removed => ~sessions[sid].exists
        /\ step = Step("handleDelete", sid) =>
              /\ Len(emitted) <= 1
              /\ \A i \in 1..Len(emitted) : emitted[i].type = "deleted"

\* C6: whenever the overlay is held for a session the registry holds, the
\* session's stored status is waiting with hasPendingToolUse = true, after
\* handleFile passes and sweeps as after any other step
OverlayOverrides ==
    \A sid \in Sids :
        (sid \in pendingPermissions /\ sessions[sid].exists) =>
            /\ sessions[sid].status.status = "waiting"
            /\ sessions[sid].status.hasPendingToolUse

\* a pass that read a tool call, and no tool result, has just written a
\* session the overlay is held for, while the machine derives working
OverlayOverridesWitness ==
    /\ step = Step("handleFile", "s1")
    /\ "s1" \in pendingPermissions
    /\ sessions["s1"].exists
    /\ Len(sessions["s1"].entries) = 2
    /\ deriveStatus(sessions["s1"].entries, now).status = "working"

\* C7: when the removal of the signal file is handled for a session that
\* carries the overlay, the overlay is dropped, the session's status becomes
\* the status derived from its records alone, and one updated event is
\* published for it
RemovalRestoresDerived ==
    [][\A sid \in Sids :
         ( /\ step' = Step("handlePendingPermissionRemoved", sid)
           /\ sid \in unlinkNotifs
           /\ sessions[sid].exists
           /\ (sid \in pendingPermissions \/ sessions[sid].pendingPermission) )
         => /\ sid \notin pendingPermissions'
            /\ ~sessions'[sid].pendingPermission
            /\ sessions'[sid].status = deriveStatus(sessions[sid].entries, now)
            /\ emitted' = <<SessionEvent("updated", sid, sessions'[sid])>>]_vars

\* the removal has just turned an overridden session back to working
RemovalRestoresDerivedWitness ==
    /\ step = Step("handlePendingPermissionRemoved", "s1")
    /\ Len(emitted) = 1
    /\ sessions["s1"].exists
    /\ sessions["s1"].status.status = "working"
    /\ "s1" \notin pendingPermissions

OverlayLeavesNoTrace ==
    \A sid \in Sids :
        ( /\ sessions[sid].exists
          /\ sid \notin pendingPermissions
          /\ hasToolResult(CompleteRecords(files[sid].lines, sessions[sid].bytePosition))
          /\ \/ step = Step("handleFile:cleared", sid)
             \/ step = Step("handlePendingPermissionRemoved", sid) /\ emitted # <<>> )
        => StatusPair(sessions[sid].status) =
             StatusPair(deriveStatus(CompleteRecords(files[sid].lines,
                                                     sessions[sid].bytePosition), now))

\* the overlay was asserted over a pending tool call, the tool's result was
\* read and the overlay removed: the session is working with nothing pending
OverlayLeavesNoTraceWitness ==
    /\ step = Step("handleFile:cleared", "s1")
    /\ "s1" \notin pendingPermissions
    /\ Len(sessions["s1"].entries) = 3
    /\ StatusPair(sessions["s1"].status) = <<"working", FALSE>>
    /\ signalFile["s1"] = "absent"

\* C10: every evaluation of the same entries at the same instant returns the
\* same (state, context) pair, the one the entries and the instant determine
\* whatever was evaluated before
ReplayDeterministic ==
    \A i \in 1..Len(results) :
        /\ results[i] = results[1]
        /\ results[i] = ApplyTimeouts(ReplayEntries(InitialSnapshot, evEntries), now)

\* a log with a pending tool call was evaluated twice past the approval
\* timeout
ReplayDeterministicWitness ==
    /\ phase = "done"
    /\ Len(results) >= 2
    /\ results[2].value = "waiting_for_approval"
    /\ results[2].context.messageCount = 2

\* the snapshot the replay of evEntries leaves, before the timeout check
Replayed == ReplayEntries(InitialSnapshot, evEntries)

\* C11: an evaluation returns the replayed snapshot after at most one
\* timeout event; when the last activity is more than 5 minutes old the
\* result is idle, whatever the state and the pending tools; otherwise
\* working with pending tools for more than 5 seconds gives
\* waiting_for_approval, working without pending tools for more than 60
\* seconds gives waiting_for_input, and anything else is left as replayed
TimeoutPriority ==
    \A i \in 1..Len(results) :
        LET pre == Replayed
            elapsed == now - pre.context.lastActivityAt
            pending == pre.context.hasPendingToolUse
        IN /\ \/ results[i] = pre
              \/ \E type \in {"IDLE_TIMEOUT", "APPROVAL_TIMEOUT", "STALE_TIMEOUT"} :
                    results[i] = Send(pre, TimeoutEvent(type))
           /\ pre.context.lastActivityAt # NoTime =>
                IF elapsed > 5 * 60 * 1000
                  THEN results[i] = Snapshot("idle", pre.context)
                ELSE IF pre.value = "working" /\ pending /\ elapsed > 5 * 1000
                  THEN results[i] = Snapshot("waiting_for_approval", pre.context)
                ELSE IF pre.value = "working" /\ ~pending /\ elapsed > 60 * 1000
                  THEN /\ results[i].value = "waiting_for_input"
                       /\ ~results[i].context.hasPendingToolUse
                ELSE results[i] = pre

\* working with a pending tool call and the last activity more than five
\* minutes old was evaluated: the result is idle
TimeoutPriorityWitness ==
    /\ phase = "done"
    /\ Replayed.value = "working"
    /\ Replayed.context.hasPendingToolUse
    /\ now - Replayed.context.lastActivityAt > IDLE_TIMEOUT_MS
    /\ results[1].value = "idle"

\* C18: the context an evaluation returns has messageCount equal to the
\* number of user and assistant records among the entries it replayed
MessageCountCountsRecords ==
    \A i \in 1..Len(results) :
        results[i].context.messageCount =
            Cardinality({k \in 1..Len(evEntries) :
                            evEntries[k].type \in {"user", "assistant"}})

\* C19: whenever an event sent to the actor takes a tool id out of
\* pendingToolIds, the event is a TOOL_RESULT that references the id, or it
\* is a TURN_END or a timeout event and pendingToolIds is empty afterwards
PendingIdsLeaveByResultOrClear ==
    [][phase = "sending" =>
         \A id \in Range(actor.context.pendingToolIds)
                     \ Range(actor'.context.pendingToolIds) :
            \E event \in StatusEvents(Epoch + fed + 1) :
                /\ actor' = Send(actor, event)
                /\ \/ event.type = "TOOL_RESULT" /\ id \in Range(event.toolUseIds)
                   \/ /\ event.type \in {"TURN_END", "IDLE_TIMEOUT",
                                          "APPROVAL_TIMEOUT", "STALE_TIMEOUT"}
                      /\ actor'.context.pendingToolIds = <<>>]_vars

\* the transition table: state, event, next state, and the context effect
\* (at: lastActivityAt = ts; count: messageCount += 1; pending: what becomes
\* of hasPendingToolUse and pendingToolIds)
Row(state, event, target, at, count, pending) ==
    [state |-> state, event |-> event, target |-> target, at |-> at,
     count |-> count, pending |-> pending]

TransitionTable ==
    { Row("idle", "USER_PROMPT", "working", TRUE, TRUE, "keep"),
      Row("working", "USER_PROMPT", "working", TRUE, TRUE, "clear"),
      Row("working", "ASSISTANT_STREAMING", "working", TRUE, FALSE, "keep"),
      Row("working", "ASSISTANT_TOOL_USE", "working", TRUE, TRUE, "set"),
      Row("working", "TOOL_RESULT", "working", TRUE, TRUE, "remove"),
      Row("working", "TURN_END", "waiting_for_input", TRUE, FALSE, "clear"),
      Row("working", "APPROVAL_TIMEOUT", "waiting_for_approval", FALSE, FALSE, "keep"),
      Row("working", "STALE_TIMEOUT", "waiting_for_input", FALSE, FALSE, "clearFlag"),
      Row("working", "IDLE_TIMEOUT", "idle", FALSE, FALSE, "keep"),
      Row("waiting_for_approval", "TOOL_RESULT", "working", TRUE, TRUE, "remove"),
      Row("waiting_for_approval", "IDLE_TIMEOUT", "idle", FALSE, FALSE, "keep"),
      Row("waiting_for_input", "USER_PROMPT", "working", TRUE, TRUE, "keep"),
      Row("waiting_for_input", "IDLE_TIMEOUT", "idle", FALSE, FALSE, "keep") }

\* the context a row's effect makes of context c on event e
RowEffect(row, c, e) ==
    LET left == SelectSeq(c.pendingToolIds, LAMBDA id : id \notin Range(e.toolUseIds))
    IN [lastActivityAt |-> IF row.at THEN e.timestamp ELSE c.lastActivityAt,
        messageCount |-> IF row.count THEN c.messageCount + 1 ELSE c.messageCount,
        hasPendingToolUse |->
            CASE row.pending = "keep" -> c.hasPendingToolUse
              [] row.pending \in {"clear", "clearFlag"} -> FALSE
              [] row.pending = "set" -> TRUE
              [] row.pending = "remove" -> left # <<>>,
        pendingToolIds |->
            CASE row.pending \in {"keep", "clearFlag"} -> c.pendingToolIds
              [] row.pending = "clear" -> <<>>
              [] row.pending = "set" -> e.toolUseIds
              [] row.pending = "remove" -> left]

\* C20: a started actor is in waiting_for_input with the initial context,
\* and from every state it reaches, every event takes it to the next state
\* and context of the table's row for the pair, or leaves both as they are
\* when the table has no row for the pair
MachineFollowsTable ==
    phase = "sending" =>
        /\ fed = 0 => actor = Snapshot("waiting_for_input", Context(NoTime, 0, FALSE, <<>>))
        /\ \A event \in StatusEvents(Epoch + fed + 1) :
              LET rows == {row \in TransitionTable :
                             row.state = actor.value /\ row.event = event.type}
              IN /\ Cardinality(rows) <= 1
                 /\ \A row \in rows :
                       Send(actor, event) =
                           Snapshot(row.target, RowEffect(row, actor.context, event))
                 /\ rows = {} => Send(actor, event) = actor

\* the actor was taken to waiting_for_approval with two tool calls pending,
\* where the table lists two of the eight events
MachineFollowsTableWitness ==
    /\ phase = "sending"
    /\ actor.value = "waiting_for_approval"
    /\ actor.context.pendingToolIds = <<"t1", "t2">>
    /\ fed = 3

\* C14: a handleFile pass that writes the registry publishes one created
\* event when the registry held no session for the file, one updated event
\* when it held one and the status changed, messageCount increased or the
\* branch changed, and no event in every other case
OneEventPerChange ==
    [][\A sid \in Sids :
         step' \in {Step("handleFile", sid), Step("handleFile:cleared", sid)} =>
            emitted' =
              IF ~sessions[sid].exists
                THEN <<SessionEvent("created", sid, sessions'[sid])>>
              ELSE IF \/ statusChanged(sessions[sid].status, sessions'[sid].status)
                      \/ sessions'[sid].status.messageCount
                            > sessions[sid].status.messageCount
                      \/ sessions'[sid].gitBranch # sessions[sid].gitBranch
                THEN <<SessionEvent("updated", sid, sessions'[sid])>>
              ELSE <<>>]_vars

\* C15: a pass for a file the registry holds no session of, whose records
\* (none at all, or none with a prompt) do not give the metadata, changes
\* nothing in the registry and publishes nothing; no session without the
\* metadata is ever in the registry; and a pass started while the registry
\* holds no session of the file reads the file from its first byte
NotEnoughDataIsIgnored ==
    /\ [](\A sid \in Sids :
            /\ sessions[sid].exists => extractMetadata(sessions[sid].entries).ok
            /\ \A p \in PassesOf(sid) :
                  (~p.existing.exists /\ p.pc = "getGitInfoCached") =>
                     /\ p.newEntries # <<>>
                     /\ p.newEntries[1].uuid = 1
                     /\ p.newPosition = ByteLength(p.newEntries))
    /\ [][\A sid \in Sids :
            (step' = Step("handleFile:notEnoughData", sid) /\ ~sessions[sid].exists)
               => /\ sessions' = sessions
                  /\ emitted' = <<>>
                  /\ \A p \in PassesOf(sid)' : ~p.existing.exists]_vars

\* a pass has read a log whose only record is a tool call, and left
\* the registry without a session of it
NotEnoughDataIsIgnoredWitness ==
    /\ step = Step("handleFile:notEnoughData", "s1")
    /\ Len(files["s1"].lines) = 1
    /\ ~sessions["s1"].exists
    /\ emitted = <<>>

\* C16: a change notification starts no pass; it leaves exactly one pending
\* timer for the file, due one window after the notification, in place of
\* any timer pending before, so that of a run of notifications each less
\* than a window after the previous one only the last one's timer remains.
\* A pass starts either when that timer is due, the timer then being gone
\* and the pass being the only one started, or when the file is added, and
\* then no timer is set
DebounceCoalesces ==
    [][\A sid \in Sids :
         LET before == TimersOf(sid)
             after == TimersOf(sid)'
             started == InFlight(sid)' - InFlight(sid)
         IN /\ Cardinality(after) <= 1
            /\ (after # {} /\ after # before) =>
                  /\ \A timer \in after : timer.due = now + 200
                  /\ started = 0
            /\ started > 0 =>
                  /\ started = 1
                  /\ \/ /\ ~files[sid].exists
                        /\ after = before
                        /\ \E p \in PassesOf(sid)' : p.eventType = "add"
                     \/ /\ files[sid].exists
                        /\ after = {}
                        /\ before # {}
                        /\ \A timer \in before : timer.due = now]_vars

\* half a window after a change notification a second one has taken the
\* place of the first one's timer: the pass is due a window from now
DebounceCoalescesWitness ==
    /\ TimersOf("s1") = {Timer("s1", now + debounceMs, TRUE)}
    /\ sessions["s1"].exists
    /\ passes = EmptyBag

\* the log of sid will not be written again and the registry has read all of it
Silent(sid) ==
    /\ sessions[sid].exists
    /\ files[sid].exists
    /\ now > LastWrite
    /\ sessions[sid].bytePosition = ByteLength(files[sid].lines)

\* C12: with the sweep timer running, a session that reports working, and
\* whose log is silent, eventually reports waiting or idle, in a step that
\* publishes an updated event carrying that status
SweepSurfacesInactivity ==
    \A sid \in Watched :
        (Silent(sid) /\ sessions[sid].status.status = "working")
           ~> ( /\ sessions[sid].exists
                /\ sessions[sid].status.status \in {"waiting", "idle"}
                /\ \E i \in 1..Len(emitted) :
                      emitted[i] = SessionEvent("updated", sid, sessions[sid]) )

\* C13: with the sweep timer running and no overlay held, a session whose
\* log is silent and whose last activity is more than 5 minutes old
\* eventually has the registry status idle
IdleAfterFiveMinutes ==
    \A sid \in Watched :
        ( /\ Silent(sid)
          /\ sid \notin pendingPermissions
          /\ now - sessions[sid].status.lastActivityAt > 5 * 60 * 1000 )
           ~> (sessions[sid].exists /\ sessions[sid].status.status = "idle")

\* the record batches of the reads, one after the other
RECURSIVE Batches(_)
Batches(reads) ==
    IF reads = <<>> THEN <<>>
    ELSE Batches(SubSeq(reads, 1, Len(reads) - 1)) \o reads[Len(reads)].entries

MatchedIds(entries, from, to) ==
    UNION { Range(logEntryToEvent(entries[j]).toolUseIds) : j \in (from + 1)..to }

\* entry k is a tool call received in working, and every entry after it,
\* up to the last one fed, is a tool result
ResultsSinceToolUse(k) ==
    /\ logEntryToEvent(evEntries[k]).type = "ASSISTANT_TOOL_USE"
    /\ ReplayEntries(InitialSnapshot, SubSeq(evEntries, 1, k - 1)).value = "working"
    /\ \A j \in (k + 1)..fed : logEntryToEvent(evEntries[j]).type = "TOOL_RESULT"

\* C21: during the replay, once a tool call with ids S has been received in
\* working and only tool results have followed, the machine is in working,
\* pendingToolIds holds exactly the ids of S no result has referenced, and
\* hasPendingToolUse is false exactly when every id of S has been matched
ToolResultsMatchIds ==
    phase = "replay" =>
        \A k \in 1..fed :
            ResultsSinceToolUse(k) =>
                LET S == Range(logEntryToEvent(evEntries[k]).toolUseIds)
                    matched == MatchedIds(evEntries, k, fed)
                IN /\ actor.value = "working"
                   /\ Range(actor.context.pendingToolIds) = S \ matched
                   /\ ~actor.context.hasPendingToolUse <=> S \subseteq matched

\* a call of two tools has been followed by the result of one of them
ToolResultsMatchIdsWitness ==
    /\ phase = "replay"
    /\ fed = 3
    /\ ResultsSinceToolUse(2)
    /\ Range(logEntryToEvent(evEntries[2]).toolUseIds) = {"t1", "t2"}
    /\ actor.context.pendingToolIds = <<"t2">>
    /\ actor.context.hasPendingToolUse

\* what deriveStatus returns for the snapshot the evaluation ended with
Reported == machineStatusToResult(actor.value, actor.context)

\* the evaluation has returned for a log whose last record is a call of a
\* tool other than Task
EvaluatedAfterToolUse ==
    /\ phase = "done"
    /\ evEntries # <<>>
    /\ logEntryToEvent(evEntries[Len(evEntries)]).type = "ASSISTANT_TOOL_USE"

\* C22: a log whose last record is a call of a tool other than Task,
\* evaluated more than 5 seconds and at most 5 minutes after that record,
\* reports waiting with hasPendingToolUse = true; evaluated 5 seconds or
\* less after it, it reports working with hasPendingToolUse = true
ToolUseLastAwaitsApproval ==
    EvaluatedAfterToolUse =>
        LET elapsed == now - evEntries[Len(evEntries)].timestamp
        IN /\ (elapsed > 5 * 1000 /\ elapsed <= 5 * 60 * 1000) =>
                (Reported.status = "waiting" /\ Reported.hasPendingToolUse)
           /\ elapsed <= 5 * 1000 =>
                (Reported.status = "working" /\ Reported.hasPendingToolUse)

\* the machine was in working when the last record of the log reached it
LastReceivedInWorking ==
    ReplayEntries(InitialSnapshot,
                  SubSeq(evEntries, 1, Len(evEntries) - 1)).value = "working"

\* C22 (amended): a log whose last record is a call of a tool other than
\* Task, received while the machine is in working, reports waiting with
\* hasPendingToolUse = true when evaluated more than 5 seconds and at most
\* 5 minutes after that record, and working with hasPendingToolUse = true
\* when evaluated 5 seconds or less after it
ToolUseInWorkingAwaitsApproval ==
    (EvaluatedAfterToolUse /\ LastReceivedInWorking) =>
        LET elapsed == now - evEntries[Len(evEntries)].timestamp
        IN /\ (elapsed > 5 * 1000 /\ elapsed <= 5 * 60 * 1000) =>
                (Reported.status = "waiting" /\ Reported.hasPendingToolUse)
           /\ elapsed <= 5 * 1000 =>
                (Reported.status = "working" /\ Reported.hasPendingToolUse)

\* a prompt and a tool call, evaluated 5001 ms after the call
ToolUseInWorkingAwaitsApprovalWitness ==
    /\ EvaluatedAfterToolUse
    /\ LastReceivedInWorking
    /\ now - evEntries[Len(evEntries)].timestamp = APPROVAL_TIMEOUT_MS + 1
    /\ actor.value = "waiting_for_approval"
    /\ Reported.status = "waiting"
    /\ Reported.hasPendingToolUse

\* C23: what an evaluation reports is working for the machine state working,
\* waiting for waiting_for_approval and for waiting_for_input, and idle for
\* idle; and a reported waiting carries hasPendingToolUse = true exactly
\* when the machine state is waiting_for_approval
FlagTellsWaitingStatesApart ==
    phase = "done" =>
        /\ actor.value = "working" => Reported.status = "working"
        /\ actor.value = "waiting_for_approval" => Reported.status = "waiting"
        /\ actor.value = "waiting_for_input" => Reported.status = "waiting"
        /\ actor.value = "idle" => Reported.status = "idle"
        /\ Reported.status = "waiting" =>
              (Reported.hasPendingToolUse <=> actor.value = "waiting_for_approval")

\* an evaluation has ended in waiting_for_approval, after the approval
\* timeout on a call of two tools one of which has its result
FlagTellsWaitingStatesApartWitness ==
    /\ phase = "done"
    /\ actor.value = "waiting_for_approval"
    /\ actor.context.pendingToolIds = <<"t2">>
    /\ Reported.status = "waiting"
    /\ Reported.hasPendingToolUse

\* the ids of the blocks of an entry that pass a test, in block order
PickedIds(entry, Test(_)) ==
    LET picked == {i \in 1..Len(entry.blocks) : Test(entry.blocks[i])}
        nth(j) == CHOOSE i \in picked :
                     Cardinality({k \in picked : k <= i}) = j
    IN [j \in 1..Cardinality(picked) |-> entry.blocks[nth(j)].id]

Holds(entry, Test(_)) == \E i \in 1..Len(entry.blocks) : Test(entry.blocks[i])

\* the one rule of the classifier a record falls under
ClassifiedAs(entry, event) ==
    LET isResult(b) == b.btype = "tool_result"
        isText(b) == b.btype = "text"
        isCall(b) == b.btype = "tool_use" /\ b.name # "Task"
        userList == entry.type = "user" /\ entry.kind = "array"
    IN CASE entry.type = "user" /\ entry.kind = "string" ->
              event.type = "USER_PROMPT"
         [] userList /\ Holds(entry, isResult) ->
              /\ event.type = "TOOL_RESULT"
              /\ event.toolUseIds = PickedIds(entry, isResult)
         [] userList /\ Holds(entry, isText) /\ ~Holds(entry, isResult) ->
              event.type = "USER_PROMPT"
         [] entry.type = "assistant" /\ Holds(entry, isCall) ->
              /\ event.type = "ASSISTANT_TOOL_USE"
              /\ event.toolUseIds = PickedIds(entry, isCall)
         [] entry.type = "assistant" /\ ~Holds(entry, isCall) ->
              event.type = "ASSISTANT_STREAMING"
         [] entry.type = "system"
              /\ entry.subtype \in {"turn_duration", "stop_hook_summary"} ->
              event.type = "TURN_END"
         [] OTHER -> event = NoEvent

\* C24: every record classified gives the one event of the rule it falls
\* under (string prompt, tool results ahead of text, text prompt, tool calls
\* other than Task, streaming, turn end), and no event when it falls under
\* none
ClassifierFollowsRules ==
    \A i \in 1..Len(results) : ClassifiedAs(evEntries[i], results[i])

\* a user record holding a text block and a tool result was classified, and
\* after it an assistant record calling Task and another tool
ClassifierFollowsRulesWitness ==
    /\ phase = "idle"
    /\ Len(results) = 2
    /\ ShapeOf(evEntries[1]) = UserTextResult("t1")
    /\ results[1] = Event("TOOL_RESULT", evEntries[1].timestamp, <<"t1">>)
    /\ ShapeOf(evEntries[2]) = AssistantTaskTool("t1", "t2")
    /\ results[2] = Event("ASSISTANT_TOOL_USE", evEntries[2].timestamp, <<"t2">>)

PassesOfOthers(bag, sid) == [q \in {r \in BagToSet(bag) : r.sid # sid} |-> bag[q]]
TimersOfOthers(timers, sid) == {timer \in timers : timer.sid # sid}

\* C26: a step in which a handleFile pass of one session ends (stored, no
\* data, failed) or its log's removal is handled leaves the registry entry
\* and the overlay of every other session as they were, a step in which no
\* handler ends leaves the whole registry as it was, and a failed pass
\* leaves the watchers listening and the passes and timers of the other
\* sessions in place
OtherSessionsUntouched ==
    [][/\ \E sid \in Sids :
            \A other \in Sids \ {sid} :
               /\ sessions'[other] = sessions[other]
               /\ (other \in pendingPermissions') = (other \in pendingPermissions)
       /\ \A sid \in Sids :
            (step'.name # "" /\ step'.sid = sid) =>
               \A other \in Sids \ {sid} :
                  /\ sessions'[other] = sessions[other]
                  /\ (other \in pendingPermissions') = (other \in pendingPermissions)
       /\ \A sid \in Sids :
            step' = Step("handleFile:error", sid) =>
               /\ orchestrator'.watcher
               /\ PassesOfOthers(passes', sid) = PassesOfOthers(passes, sid)
               /\ TimersOfOthers(debounceTimers', sid)
                     = TimersOfOthers(debounceTimers, sid)]_vars

\* the pass over the log of s1 has failed (the log holds its prompt, yet
\* there is no session, no pass and no timer for it), and a pass over the
\* log of s2, for which the overlay is held, has just stored its session
OtherSessionsUntouchedWitness ==
    /\ files["s1"].exists
    /\ ~sessions["s1"].exists
    /\ PassesOf("s1") = {}
    /\ TimersOf("s1") = {}
    /\ step = Step("handleFile", "s2")
    /\ "s2" \in pendingPermissions
    /\ emitted = <<SessionEvent("created", "s2", sessions["s2"])>>
    /\ sessions["s2"].pendingPermission

\* C28: a handleFile pass whose read finds the log file gone ends there: the
\* registry and the overlay map are as they were, and no event, session or
\* error, is published
VanishedFileIsNoData ==
    [][\A sid \in Sids :
         step' = Step("handleFile:ENOENT", sid) =>
            /\ sessions' = sessions
            /\ pendingPermissions' = pendingPermissions
            /\ emitted' = <<>>]_vars

\* the log was removed while a pass was waiting for its read, and the read
\* has just found it gone
VanishedFileIsNoDataWitness ==
    /\ step = Step("handleFile:ENOENT", "s1")
    /\ files["s1"].removed
    /\ ~sessions["s1"].exists
    /\ emitted = <<>>

\* C27: handling a malformed permission signal file (unparseable, or with no
\* session identifier) is the same as handling none: the call adds no
\* overlay, leaves every session as it is and publishes no event.
MalformedSignalIsNoSignal ==
    [][\A sid \in Sids :
          (step' = Step("handlePendingPermission", sid)
             /\ signalFile[sid] = "malformed")
          => /\ pendingPermissions' = pendingPermissions
             /\ sessions' = sessions
             /\ emitted' = <<>>]_vars

\* a call has handled a malformed signal for a registered session
MalformedSignalIsNoSignalWitness ==
    \E sid \in Sids :
       /\ step = Step("handlePendingPermission", sid)
       /\ signalFile[sid] = "malformed"
       /\ sessions[sid].exists
       /\ ~sessions[sid].pendingPermission
       /\ sid \notin pendingPermissions

\* C29: a valid permission signal file that is processed by the startup load
\* and by a live add/change notification, one right after the other in
\* either order, leaves the overlay map and the session (its status and its
\* pendingPermission) as the first of the two processings left them.
SignalProcessedTwiceIsProcessedOnce ==
    [][\A sid \in Sids :
          (/\ step = Step("handlePendingPermission", sid)
           /\ step' = Step("handlePendingPermission", sid)
           /\ signalFile[sid] = "valid")
          => /\ pendingPermissions' = pendingPermissions
             /\ sessions' = sessions]_vars

\* the signal of a registered session was listed by the startup load, the
\* load is over, no call is left in flight and the last call has just ended
\* with the overlay on the session
SignalProcessedTwiceIsProcessedOnceWitness ==
    \E sid \in Sids :
       /\ step = Step("handlePendingPermission", sid)
       /\ signalFile[sid] = "valid"
       /\ orchestrator.start = "load"
       /\ orchestrator.listed = {sid}
       /\ orchestrator.toLoad = {}
       /\ permCalls = EmptyBag
       /\ sid \in pendingPermissions
       /\ sessions[sid].exists
       /\ sessions[sid].pendingPermission
       /\ sessions[sid].status.status = "waiting"

\* C30: once stop() has been called no debounce timer and no sweep timer is
\* scheduled: the set of pending debounce timers is empty and the sweep
\* timer is not set.
StopLeavesNoTimer ==
    orchestrator.stopped
    => /\ debounceTimers = {}
       /\ ~orchestrator.staleCheckInterval

\* C31: a handling pass for an existing session that reads zero new records
\* is a no-op: it ends at its read, the registry (the session's records,
\* offset, status and branch) is unchanged and no event is published.
NoNewRecordsIsNoOp ==
    [][\A sid \in Sids :
          step' = Step("handleFile:noNewData", sid)
          => /\ sessions' = sessions
             /\ emitted' = <<>>
             /\ BagCardinality(passes') = BagCardinality(passes) - 1
             /\ \A q \in BagToSet(passes') : q.pc = "tailJSONL" \/ q.newEntries # <<>>]_vars

\* a pass has found nothing new in the log of a registered session
NoNewRecordsIsNoOpWitness ==
    \E sid \in Sids :
       /\ step = Step("handleFile:noNewData", sid)
       /\ sessions[sid].exists
       /\ sessions[sid].entries # <<>>
       /\ sessions[sid].bytePosition = ByteLength(files[sid].lines)

\* the pass of sid that stores its session in this step
Stores(p, sid) ==
    /\ p.sid = sid
    /\ p.pc = "getGitInfoCached"
    /\ step' = Step("handleFile", sid)
    /\ passes' = Detached(Take(passes, p), sid)

\* C32: a handling pass that stores the session of an existing session with
\* new records marks the stored session branchChanged exactly when the
\* branch it has just resolved differs from the branch the registry holds
\* for the session, and when it marks it, it publishes an updated event,
\* also when status and message count are the same.
BranchChangeIsPublished ==
    [][\A sid \in Sids :
          (step' = Step("handleFile", sid) /\ sessions[sid].exists)
          => /\ sessions'[sid].branchChanged
                  = (repoBranch[sid] # sessions[sid].gitBranch)
             /\ sessions'[sid].branchChanged
                  => emitted' = <<SessionEvent("updated", sid, sessions'[sid])>>]_vars

\* C33: a handling pass that marks branchChanged stores the branch it has
\* just resolved as the session's gitBranch, also when no branch was
\* resolved, so that a later pass resolving the same branch does not mark
\* branchChanged again.
MarkedBranchIsStored ==
    [][\A sid \in Sids : \A p \in BagToSet(passes) :
          (Stores(p, sid) /\ sessions'[sid].branchChanged)
          => sessions'[sid].gitBranch = repoBranch[sid]]_vars

\* C34: for every session the published events follow the lifecycle order:
\* created only for a session the registry does not hold, updated only for
\* a session it holds before and after, deleted only for a session it held,
\* so one created, then updated events, then at most one deleted, and no
\* second created without a deleted in between.
EventsFollowLifecycle ==
    [][\A i \in 1..Len(emitted') :
          LET e == emitted'[i]
          IN /\ e.type = "created" => ~sessions[e.sid].exists /\ sessions'[e.sid].exists
             /\ e.type = "updated" => sessions[e.sid].exists /\ sessions'[e.sid].exists
             /\ e.type = "deleted" => sessions[e.sid].exists /\ ~sessions'[e.sid].exists]_vars

\* C35: while deriveStatusFromMachine replays the log's records the machine
\* is in working or waiting_for_input whenever an event drawn from a record
\* is processed; idle and waiting_for_approval are entered only by the one
\* timeout event sent after the replay, so the transitions out of idle and
\* out of waiting_for_approval never fire in an evaluation.
ReplayStaysInTwoStates ==
    /\ phase = "replay" => actor.value \in {"working", "waiting_for_input"}
    /\ actor.value \in {"idle", "waiting_for_approval"} => phase = "done"

\* an evaluation has ended in idle after a replay of three records that
\* went through both other states and was in working at its end
ReplayStaysInTwoStatesWitness ==
    /\ phase = "done"
    /\ Len(evEntries) = MaxEntries
    /\ actor.value = "idle"
    /\ ReplayEntries(CreateActor(actor), SubSeq(evEntries, 1, 2)).value
          = "waiting_for_input"
    /\ ReplayEntries(CreateActor(actor), evEntries).value = "working"

\* no record of the evaluated log produced an event the machine handled
NothingHandled ==
    \A k \in 0..Len(evEntries) :
        ReplayEntries(CreateActor(actor), SubSeq(evEntries, 1, k)) = CreateActor(actor)

\* C36: an evaluation in which no record produced an event that the machine
\* handled (no records, or records all ignored in waiting_for_input) leaves
\* lastActivityAt empty, takes the elapsed time to be more than five minutes
\* and returns idle with messageCount 0, however recent the records are.
NothingHandledIsIdle ==
    (phase = "done" /\ NothingHandled)
    => /\ actor.value = "idle"
       /\ actor.context.lastActivityAt = NoTime
       /\ actor.context.messageCount = 0
       /\ TimeSinceActivity(actor.context, now) > IDLE_TIMEOUT_MS

\* an evaluation of three records, none of them handled, the last of them
\* written at the instant of the evaluation, has returned idle
NothingHandledIsIdleWitness ==
    /\ phase = "done"
    /\ Len(evEntries) = MaxEntries
    /\ NothingHandled
    /\ now = evEntries[MaxEntries].timestamp
    /\ actor.value = "idle"

\* the events the last step published for sid
EventsFor(events, sid) == SelectSeq(events, LAMBDA e : e.sid = sid)

\* C37: the staleness sweep changes nothing but the status of sessions that
\* report working: it adds and removes no registry entry, leaves records,
\* byte offset, branch and overlay of every session as they are, leaves a
\* session reporting waiting or idle untouched, and publishes an updated
\* event for a session only when the status it re-derived differs from the
\* stored one.
SweepChangesStatusOnly ==
    [][step' = Step("checkStaleSessions", "")
       => /\ pendingPermissions' = pendingPermissions
          /\ \A sid \in Sids :
               /\ sessions'[sid].exists = sessions[sid].exists
               /\ ~sessions[sid].exists => EventsFor(emitted', sid) = <<>>
               /\ sessions[sid].exists =>
                    /\ sessions'[sid] = [sessions[sid] EXCEPT
                                            !.status = sessions'[sid].status]
                    /\ sessions[sid].status.status # "working"
                         => sessions'[sid] = sessions[sid]
                    /\ EventsFor(emitted', sid) =
                         IF statusChanged(sessions[sid].status,
                                          deriveStatus(sessions[sid].entries, now))
                              /\ sessions[sid].status.status = "working"
                           THEN <<SessionEvent("updated", sid, sessions'[sid])>>
                           ELSE <<>>
                    /\ EventsFor(emitted', sid) # <<>>
                         => /\ sessions'[sid].status
                                 = deriveStatus(sessions[sid].entries, now)
                            /\ sessions'[sid].status # sessions[sid].status]_vars

\* a sweep has run over a session that reports waiting under its overlay and
\* whose records alone would have it reported otherwise
SweepChangesStatusOnlyWitness ==
    \E sid \in Sids :
       /\ step = Step("checkStaleSessions", "")
       /\ sessions[sid].exists
       /\ sessions[sid].pendingPermission
       /\ sessions[sid].status.status = "waiting"
       /\ deriveStatus(sessions[sid].entries, now).status # "waiting"
       /\ emitted = <<>>

\* a pass for sid that its debounce timer has just started
ChangePassStarted(sid) ==
    \E p \in PassesOf(sid) : p.eventType = "change" /\ p.pc = "tailJSONL"

\* C38: once change notifications for a file have stopped, and unless the
\* orchestrator is stopped, the pending debounce timer fires and a handling
\* pass for the file starts; and a timer starts a pass only when it is due,
\* one window after the last notification, so that no pass starts while
\* notifications keep arriving less than a window apart.
QuietFileIsHandled ==
    /\ \A sid \in Watched :
          (TimersOf(sid) # {}) ~> (ChangePassStarted(sid) \/ orchestrator.stopped)
    /\ [][\A sid \in Sids :
            (TimersOf(sid)' # TimersOf(sid) /\ step' # Step("stop", ""))
            => \/ /\ TimersOf(sid)' = {}
                  /\ \A timer \in TimersOf(sid) : timer.due <= now
                  /\ InFlight(sid)' = InFlight(sid) + 1
                  /\ ChangePassStarted(sid)'
               \/ /\ \A timer \in TimersOf(sid)' : timer.due = now + debounceMs
                  /\ Cardinality(TimersOf(sid)') = 1
                  /\ InFlight(sid)' = InFlight(sid)]_vars

\* the timer of the last of several notifications has fired, a window after
\* that notification, and its pass has started
QuietFileIsHandledWitness ==
    \E sid \in Watched :
       /\ ChangePassStarted(sid)
       /\ TimersOf(sid) = {}
       /\ ~orchestrator.stopped
       /\ now > Epoch + 2 * debounceMs
       /\ sessions[sid].exists

====
